---------------------------- MODULE Spec2Model ----------------------------
(***************************************************************************)
(* A model of the emul8tor CHIP-8 virtual machine (src/src/lib.rs), its    *)
(* framebuffer (src/src/video.rs) and its input manager (src/src/input.rs).*)
(*                                                                         *)
(* The Chip8 struct is the record `chip8`; its display, input and audio    *)
(* fields are the records of their managers.  Every handler op_* is an     *)
(* operator from a Chip8 record to the Chip8 record it leaves, written     *)
(* statement by statement after the Rust source.  A Rust panic ends the    *)
(* process: it is kept in the field `panic` and nothing runs after it.     *)
(*                                                                         *)
(* Two arrays are kept as finite maps of the cells that differ from a      *)
(* default, so that a state stays small:                                   *)
(*   memory : the cells that differ from the image "font at 0..79, zero    *)
(*            elsewhere" (mem_get reads a cell, mem_set writes one);       *)
(*   VRAM   : height, width and the cells that are not 0 (vram_get reads   *)
(*            a cell, draw_pixel writes one).                              *)
(***************************************************************************)
EXTENDS Integers, Sequences, FiniteSets, TLC

VARIABLES
    chip8,      \* the Chip8 struct (lib.rs 50-71), with `panic`
    done,       \* TRUE once run() has left its loop (lib.rs 535-537)
    step,       \* what the last step of the model did
    fetched,    \* the opcode the last cycle fetched, -1 when it fetched none
    pre,        \* chip8 as it was before the last step
    ret,        \* the last direct call of a method: its arguments and return value;
                \* after a cycle, the events its input.update() processed
    frames      \* the frame ticks run() has made so far

vars == <<chip8, done, step, fetched, pre, ret, frames>>

(***************************************************************************)
(* Program constants                                                       *)
(***************************************************************************)
MEMORY_SIZE == 4096
V_COUNT == 16
ROM_START_ADDRESS == 512
SPRITE_WIDTH == 8
MAX_STACK_LEVELS == 16
FONTSET_LEN == 80
KEYS_NUM == 16
X_DIM_LORES == 64
Y_DIM_LORES == 32
X_DIM_HIRES == 128
Y_DIM_HIRES == 64

CHIP8_FONTSET ==
    << \hF0, \h90, \h90, \h90, \hF0,
       \h20, \h60, \h20, \h20, \h70,
       \hF0, \h10, \hF0, \h80, \hF0,
       \hF0, \h10, \hF0, \h10, \hF0,
       \h90, \h90, \hF0, \h10, \h10,
       \hF0, \h80, \hF0, \h10, \hF0,
       \hF0, \h80, \hF0, \h90, \hF0,
       \hF0, \h10, \h20, \h40, \h40,
       \hF0, \h90, \hF0, \h90, \hF0,
       \hF0, \h90, \hF0, \h10, \hF0,
       \hF0, \h90, \hF0, \h90, \h90,
       \hE0, \h90, \hE0, \h90, \hE0,
       \hF0, \h80, \h80, \h80, \hF0,
       \hE0, \h90, \h90, \h90, \hE0,
       \hF0, \h80, \hF0, \h80, \hF0,
       \hF0, \h80, \hF0, \h80, \h80 >>

Mode == {"Chip8", "SuperChip", "XOChip"}
Byte == 0..255

\* Option<T>: None is the empty sequence, Some(v) the sequence of v alone.
None == << >>
Some(v) == << v >>

(***************************************************************************)
(* Machine arithmetic: u8 / u16 bit operations                             *)
(***************************************************************************)
RECURSIVE AndBits(_, _, _)
AndBits(a, b, w) ==
    IF w = 0 \/ a = 0 \/ b = 0 THEN 0
    ELSE (a % 2) * (b % 2) + 2 * AndBits(a \div 2, b \div 2, w - 1)

RECURSIVE OrBits(_, _, _)
OrBits(a, b, w) ==
    IF w = 0 \/ (a = 0 /\ b = 0) THEN 0
    ELSE (IF (a % 2) + (b % 2) > 0 THEN 1 ELSE 0) + 2 * OrBits(a \div 2, b \div 2, w - 1)

RECURSIVE XorBits(_, _, _)
XorBits(a, b, w) ==
    IF w = 0 \/ (a = 0 /\ b = 0) THEN 0
    ELSE ((a + b) % 2) + 2 * XorBits(a \div 2, b \div 2, w - 1)

RECURSIVE Pow2(_)
Pow2(k) == IF k = 0 THEN 1 ELSE 2 * Pow2(k - 1)

And8(a, b) == AndBits(a, b, 8)
Or8(a, b) == OrBits(a, b, 8)
Xor8(a, b) == XorBits(a, b, 8)
And16(a, b) == AndBits(a, b, 16)
Shr(a, k) == a \div Pow2(k)

\* op & m for the masks of execute_opcode, each a set of whole nibbles.
mask(op, m) ==
    CASE m = \hF000 -> (op \div 4096) * 4096
      [] m = \h0F00 -> ((op \div 256) % 16) * 256
      [] m = \h00F0 -> ((op \div 16) % 16) * 16
      [] m = \h000F -> op % 16
      [] m = \h00FF -> op % 256
      [] m = \h0FFF -> op % 4096
      [] m = \hF00F -> (op \div 4096) * 4096 + (op % 16)
      [] OTHER -> And16(op, m)

(***************************************************************************)
(* memory: [u8; MEMORY_SIZE]                                               *)
(***************************************************************************)
\* The cell of the image every memory starts from: the font, then zeros.
mem_default(addr) == IF addr < FONTSET_LEN THEN CHIP8_FONTSET[addr + 1] ELSE 0

mem_get(memory, addr) ==
    IF addr \in DOMAIN memory THEN memory[addr] ELSE mem_default(addr)

mem_set(memory, addr, value) ==
    IF value = mem_default(addr)
    THEN [a \in DOMAIN memory \ {addr} |-> memory[a]]
    ELSE [a \in DOMAIN memory \cup {addr} |-> IF a = addr THEN value ELSE memory[a]]

(***************************************************************************)
(* video.rs: DisplayManager                                                *)
(***************************************************************************)
\* vec![vec![0; x_dim]; y_dim]
vram_new(x_dim, y_dim) == [height |-> y_dim, width |-> x_dim, cells |-> << >>]

vram_get(VRAM, x, y) ==
    IF <<x, y>> \in DOMAIN VRAM.cells THEN VRAM.cells[<<x, y>>] ELSE 0

vram_in(VRAM, x, y) == x >= 0 /\ x < VRAM.width /\ y >= 0 /\ y < VRAM.height

vram_put(VRAM, x, y, value) ==
    LET c == VRAM.cells
        p == <<x, y>>
    IN  IF value = 0
        THEN IF p \in DOMAIN c
             THEN [VRAM EXCEPT !.cells = [q \in DOMAIN c \ {p} |-> c[q]]]
             ELSE VRAM
        ELSE [VRAM EXCEPT !.cells =
                [q \in DOMAIN c \cup {p} |-> IF q = p THEN value ELSE c[q]]]

\* DisplayManager::new: a fresh window, presented once, and a zeroed grid.
\* `presents` counts the present() calls the canvas has received; `oob` is
\* set by an index outside the grid, which panics.
DisplayManager_new(resolution) ==
    [ VRAM |-> IF resolution = "Low"
               THEN vram_new(X_DIM_LORES, Y_DIM_LORES)
               ELSE vram_new(X_DIM_HIRES, Y_DIM_HIRES),
      update_needed |-> FALSE,
      presents |-> 1,
      oob |-> FALSE ]

height(d) == d.VRAM.height
width(d) == d.VRAM.width

\* The read self.VRAM[y][x]; an index outside the grid panics.
vram_read(d, x, y) == vram_get(d.VRAM, x, y)

draw_pixel(d, x, y, value) ==
    IF vram_in(d.VRAM, x, y)
    THEN [d EXCEPT !.VRAM = vram_put(d.VRAM, x, y, value)]
    ELSE [d EXCEPT !.oob = TRUE]

\* set_pixel returning the new value of the pixel instead of the collision.
set_pixel_returns_new(d, x, y, value) ==
    LET d1 == [d EXCEPT !.update_needed = TRUE]
        previous_value == vram_read(d1, x, y)
    IN  [display |-> draw_pixel(d1, x, y, Xor8(previous_value, value)),
         ret |-> Xor8(previous_value, value)]

\* set_pixel returning the previous value of the pixel whatever the bit.
set_pixel_returns_previous(d, x, y, value) ==
    LET d1 == [d EXCEPT !.update_needed = TRUE]
        previous_value == vram_read(d1, x, y)
    IN  [display |-> draw_pixel(d1, x, y, Xor8(previous_value, value)),
         ret |-> previous_value]

\* set_pixel returns a value: the result is the display and that value.
\* set_pixel that ORs the value into the pixel instead of XORing it.
set_pixel_ors(d, x, y, value) ==
    LET d1 == [d EXCEPT !.update_needed = TRUE]
        previous_value == vram_read(d1, x, y)
        d2 == IF vram_in(d1.VRAM, x, y)
              THEN draw_pixel(d1, x, y, Or8(previous_value, value))
              ELSE [d1 EXCEPT !.oob = TRUE]
    IN  [display |-> d2, ret |-> And8(previous_value, value)]

set_pixel(d, x, y, value) ==
    LET d1 == [d EXCEPT !.update_needed = TRUE]
        previous_value == vram_read(d1, x, y)
        d2 == IF vram_in(d1.VRAM, x, y)
              THEN draw_pixel(d1, x, y, Xor8(previous_value, value))
              ELSE [d1 EXCEPT !.oob = TRUE]
    IN  [display |-> d2, ret |-> And8(previous_value, value)]

clear(d) ==
    [d EXCEPT !.update_needed = TRUE,
              !.VRAM = [d.VRAM EXCEPT !.cells = << >>]]

\* render presenting whether or not an update is needed.
render_always_presents(d) ==
    [d EXCEPT !.update_needed = FALSE, !.presents = d.presents + 1]

render(d) ==
    IF d.update_needed
    THEN [d EXCEPT !.update_needed = FALSE, !.presents = d.presents + 1]
    ELSE d


\* The loops below run their iterations in the order of the source, the
\* range split in two at each level; an iteration after a panic does not
\* run.

\* draw_pixel(x, y, self.VRAM[src_y][src_x]): the read panics on an index
\* outside the grid, as the write does.
copy_pixel(d, x, y, src_x, src_y) ==
    IF vram_in(d.VRAM, src_x, src_y)
    THEN draw_pixel(d, x, y, vram_read(d, src_x, src_y))
    ELSE [d EXCEPT !.oob = TRUE]

\* for x in from..to { draw_pixel(x, y, self.VRAM[src_y][x]) }
RECURSIVE copy_row(_, _, _, _, _)
copy_row(d, y, src_y, from, to) ==
    IF from >= to \/ d.oob THEN d
    ELSE IF to - from = 1 THEN copy_pixel(d, from, y, from, src_y)
    ELSE LET mid == (from + to) \div 2
         IN  copy_row(copy_row(d, y, src_y, from, mid), y, src_y, mid, to)

\* for x in from..to { draw_pixel(x, y, 0) }
RECURSIVE clear_row(_, _, _, _)
clear_row(d, y, from, to) ==
    IF from >= to \/ d.oob THEN d
    ELSE IF to - from = 1 THEN draw_pixel(d, from, y, 0)
    ELSE LET mid == (from + to) \div 2
         IN  clear_row(clear_row(d, y, from, mid), y, mid, to)

\* for y in from..to { for x in 0..width { draw_pixel(x, y, 0) } }
RECURSIVE clear_rows(_, _, _)
clear_rows(d, from, to) ==
    IF from >= to \/ d.oob THEN d
    ELSE IF to - from = 1 THEN clear_row(d, from, 0, width(d))
    ELSE LET mid == (from + to) \div 2
         IN  clear_rows(clear_rows(d, from, mid), mid, to)

\* for y in (from..to).rev() { for x in 0..width { row y := row y - rows } }
RECURSIVE move_rows_down(_, _, _, _)
move_rows_down(d, from, to, rows) ==
    IF from >= to \/ d.oob THEN d
    ELSE IF to - from = 1 THEN copy_row(d, from, from - rows, 0, width(d))
    ELSE LET mid == (from + to) \div 2
         IN  move_rows_down(move_rows_down(d, mid, to, rows), from, mid, rows)

\* scroll_down without the loop that clears the top rows.
scroll_down_no_clear(d, rows) ==
    IF rows < height(d)
    THEN move_rows_down(d, rows, height(d), rows)
    ELSE d

scroll_down(d, rows) ==
    LET moved == IF rows < height(d)
                 THEN move_rows_down(d, rows, height(d), rows)
                 ELSE d
    IN  clear_rows(moved, 0, rows)

\* for y in from..to { for x in 0..width { row y := row y + rows } }
RECURSIVE move_rows_up(_, _, _, _)
move_rows_up(d, from, to, rows) ==
    IF from >= to \/ d.oob THEN d
    ELSE IF to - from = 1 THEN copy_row(d, from, from + rows, 0, width(d))
    ELSE LET mid == (from + to) \div 2
         IN  move_rows_up(move_rows_up(d, from, mid, rows), mid, to, rows)

\* height - rows is a usize: with rows > height the subtraction overflows,
\* a panic in a build with overflow checks.  No opcode passes more than 15
\* rows and no specification here calls it with more than height.
scroll_up(d, rows) ==
    IF rows > height(d) THEN [d EXCEPT !.oob = TRUE]
    ELSE LET moved == IF rows < height(d)
                      THEN move_rows_up(d, 0, height(d) - rows, rows)
                      ELSE d
         IN  clear_rows(moved, height(d) - rows, height(d))

\* for x in (from..to).rev() { draw_pixel(x, y, self.VRAM[y][x - 4]) }
RECURSIVE shift_row_right(_, _, _, _)
shift_row_right(d, y, from, to) ==
    IF from >= to \/ d.oob THEN d
    ELSE IF to - from = 1 THEN copy_pixel(d, from, y, from - 4, y)
    ELSE LET mid == (from + to) \div 2
         IN  shift_row_right(shift_row_right(d, y, mid, to), y, from, mid)

\* for y in from..to { shift the row right; clear its 4 left pixels }
RECURSIVE scroll_right_rows(_, _, _)
scroll_right_rows(d, from, to) ==
    IF from >= to \/ d.oob THEN d
    ELSE IF to - from = 1
         THEN clear_row(shift_row_right(d, from, 4, width(d)), from, 0, 4)
    ELSE LET mid == (from + to) \div 2
         IN  scroll_right_rows(scroll_right_rows(d, from, mid), mid, to)

scroll_right(d) == scroll_right_rows(d, 0, height(d))

\* shift_row_left reading 8 columns to the right instead of 4.
RECURSIVE shift_row_left_by_eight(_, _, _, _)
shift_row_left_by_eight(d, y, from, to) ==
    IF from >= to \/ d.oob THEN d
    ELSE IF to - from = 1 THEN copy_pixel(d, from, y, from + 8, y)
    ELSE LET mid == (from + to) \div 2
         IN  shift_row_left_by_eight(shift_row_left_by_eight(d, y, from, mid), y, mid, to)

\* for x in from..to { draw_pixel(x, y, self.VRAM[y][x + 4]) }
RECURSIVE shift_row_left(_, _, _, _)
shift_row_left(d, y, from, to) ==
    IF from >= to \/ d.oob THEN d
    ELSE IF to - from = 1 THEN copy_pixel(d, from, y, from + 4, y)
    ELSE LET mid == (from + to) \div 2
         IN  shift_row_left(shift_row_left(d, y, from, mid), y, mid, to)

\* for y in from..to { shift the row left; clear its 4 right pixels }
RECURSIVE scroll_left_rows(_, _, _)
scroll_left_rows(d, from, to) ==
    IF from >= to \/ d.oob THEN d
    ELSE IF to - from = 1
         THEN clear_row(shift_row_left(d, from, 0, width(d) - 4),
                        from, width(d) - 4, width(d))
    ELSE LET mid == (from + to) \div 2
         IN  scroll_left_rows(scroll_left_rows(d, from, mid), mid, to)

scroll_left(d) == scroll_left_rows(d, 0, height(d))

(***************************************************************************)
(* input.rs: InputManager                                                  *)
(***************************************************************************)
\* SCANCODE_TO_HEX_MAP; "Escape" and "Space" are scancodes outside it.
SCANCODE_TO_HEX_MAP ==
    [ Num1 |-> 1, Num2 |-> 2, Num3 |-> 3, Num4 |-> 12,
      Q |-> 4, W |-> 5, E |-> 6, R |-> 13,
      A |-> 7, S |-> 8, D |-> 9, F |-> 14,
      Z |-> 10, X |-> 0, C |-> 11, V |-> 15 ]

InputManager_new ==
    [ key_state |-> [k \in 0..(KEYS_NUM - 1) |-> FALSE],
      released_key_queue |-> None,
      waiting_for_key |-> FALSE,
      quit |-> FALSE ]

\* get_next_released_key returns a value: the result is the manager and it.
get_next_released_key_keeps_queue(input) ==
    [ input |-> [input EXCEPT !.waiting_for_key = TRUE],
      ret |-> input.released_key_queue ]

get_next_released_key(input) ==
    [ input |-> [input EXCEPT !.waiting_for_key = TRUE,
                              !.released_key_queue = None],
      ret |-> input.released_key_queue ]

\* One arm of the match in update(): the event is [type, scancode].
handle_event(input, event) ==
    CASE event.type = "Quit" -> [input EXCEPT !.quit = TRUE]
      [] event.type = "KeyUp" ->
            IF event.scancode \in DOMAIN SCANCODE_TO_HEX_MAP
            THEN LET hex_key == SCANCODE_TO_HEX_MAP[event.scancode]
                     i1 == [input EXCEPT !.key_state[hex_key] = FALSE]
                 IN  IF i1.waiting_for_key
                     THEN [i1 EXCEPT !.released_key_queue = Some(hex_key),
                                     !.waiting_for_key = FALSE]
                     ELSE i1
            ELSE input
      [] event.type = "KeyDown" ->
            LET i1 == IF event.scancode \in DOMAIN SCANCODE_TO_HEX_MAP
                      THEN [input EXCEPT
                              !.key_state[SCANCODE_TO_HEX_MAP[event.scancode]] = TRUE]
                      ELSE input
            IN  IF event.scancode = "Escape"
                THEN [i1 EXCEPT !.quit = TRUE]
                ELSE i1
      [] OTHER -> input

\* update(): the events the pump holds, in order.
RECURSIVE update(_, _)
update(input, events) ==
    IF events = << >> THEN input
    ELSE update(handle_event(input, Head(events)), Tail(events))

should_quit_never(input) == FALSE

should_quit(input) == input.quit

(***************************************************************************)
(* audio.rs: AudioManager; `playing` is the device status.                 *)
(***************************************************************************)
\* `starts` and `stops` count the calls of start() and stop().
AudioManager_new == [playing |-> FALSE, starts |-> 0, stops |-> 0]
audio_start(audio) == [audio EXCEPT !.playing = TRUE, !.starts = audio.starts + 1]
audio_stop(audio) == [audio EXCEPT !.playing = FALSE, !.stops = audio.stops + 1]

(***************************************************************************)
(* lib.rs: Chip8                                                           *)
(***************************************************************************)
\* Chip8::new(mode, scale, memory): `memory` is the loader's buffer, kept
\* as the cells that differ from the default image, so that copying the
\* font over memory[..80] drops what the buffer held there.
\* overflow_checks is the build profile: with it an integer overflow
\* panics (debug), without it the integer wraps (release).
Chip8_new(mode, memory, overflow_checks) ==
    [ mode |-> mode,
      memory |-> [a \in {b \in DOMAIN memory : b >= FONTSET_LEN} |-> memory[a]],
      V |-> [i \in 0..(V_COUNT - 1) |-> 0],
      I |-> 0,
      PC |-> ROM_START_ADDRESS,
      stack |-> [i \in 0..(MAX_STACK_LEVELS - 1) |-> 0],
      SP |-> 0,
      delay_timer |-> 0,
      sound_timer |-> 0,
      display |-> DisplayManager_new("Low"),
      input |-> InputManager_new,
      audio |-> AudioManager_new,
      release_key_register |-> None,
      overflow_checks |-> overflow_checks,
      panic |-> "" ]

\* panic!(msg), and the panics of an index out of bounds or an overflow.
Panic(s, msg) == [s EXCEPT !.panic = msg]

\* self.memory[addr]: in bounds or a panic.
mem_in(addr) == addr >= 0 /\ addr < MEMORY_SIZE

\* fetch_opcode returns a value: the result is the Chip8 and the opcode.
fetch_opcode(s) ==
    IF mem_in(s.PC) /\ mem_in(s.PC + 1)
    THEN [ chip8 |-> [s EXCEPT !.PC = s.PC + 2],
           opcode |-> mem_get(s.memory, s.PC) * 256 + mem_get(s.memory, s.PC + 1) ]
    ELSE [ chip8 |-> Panic(s, "index out of bounds"), opcode |-> -1 ]

unknown_opcode(s, opcode) == Panic(s, "Unknown opcode")

op_0nnn(s, nnn) == s

op_00cn(s, n) == [s EXCEPT !.display = scroll_down(s.display, n)]

op_00dn(s, n) == [s EXCEPT !.display = scroll_up(s.display, n)]

\* op_00e0 clearing the screen by making a new low-resolution display.
op_00e0_resets_resolution(s) == [s EXCEPT !.display = DisplayManager_new("Low")]

op_00e0(s) == [s EXCEPT !.display = clear(s.display)]

\* op_00ee returning to the oldest pushed address instead of the newest.
op_00ee_returns_to_oldest(s) ==
    IF s.SP = 0 THEN Panic(s, "Stack underflow!")
    ELSE [s EXCEPT !.SP = s.SP - 1, !.PC = s.stack[0]]

op_00ee(s) ==
    IF s.SP = 0 THEN Panic(s, "Stack underflow!")
    ELSE [s EXCEPT !.SP = s.SP - 1, !.PC = s.stack[s.SP - 1]]

op_00fb(s) == [s EXCEPT !.display = scroll_right(s.display)]

op_00fc(s) == [s EXCEPT !.display = scroll_left(s.display)]

\* op_00fe resizing the grid in place instead of replacing the display.
op_00fe_keeps_pixels(s) ==
    [s EXCEPT !.display.VRAM.width = X_DIM_LORES, !.display.VRAM.height = Y_DIM_LORES]

op_00fe(s) == [s EXCEPT !.display = DisplayManager_new("Low")]

op_00ff(s) == [s EXCEPT !.display = DisplayManager_new("High")]

op_1nnn(s, addr) == [s EXCEPT !.PC = addr]

\* op_2nnn that wraps the stack pointer around instead of panicking.
op_2nnn_wraps(s, addr) ==
    IF s.SP >= MAX_STACK_LEVELS
    THEN [s EXCEPT !.stack[0] = s.PC, !.SP = 1, !.PC = addr]
    ELSE [s EXCEPT !.stack[s.SP] = s.PC, !.SP = s.SP + 1, !.PC = addr]

op_2nnn(s, addr) ==
    IF s.SP >= MAX_STACK_LEVELS THEN Panic(s, "Stack overflow!")
    ELSE [s EXCEPT !.stack[s.SP] = s.PC, !.SP = s.SP + 1, !.PC = addr]

op_3xkk(s, x, kk) == IF s.V[x] = kk THEN [s EXCEPT !.PC = s.PC + 2] ELSE s

op_4xkk(s, x, kk) == IF s.V[x] # kk THEN [s EXCEPT !.PC = s.PC + 2] ELSE s

op_5xy0(s, x, y) == IF s.V[x] = s.V[y] THEN [s EXCEPT !.PC = s.PC + 2] ELSE s

op_6xkk(s, x, kk) == [s EXCEPT !.V[x] = kk]

\* wrapping_add
op_7xkk(s, x, kk) == [s EXCEPT !.V[x] = (s.V[x] + kk) % 256]

op_8xy0(s, x, y) == [s EXCEPT !.V[x] = s.V[y]]

\* reset_vf that zeroes VF in every mode.
reset_vf_always(s) == [s EXCEPT !.V[15] = 0]

\* if self.mode == Mode::Chip8 { self.V[0xF] = 0; }
reset_vf(s) == IF s.mode = "Chip8" THEN [s EXCEPT !.V[15] = 0] ELSE s

op_8xy1(s, x, y) == reset_vf([s EXCEPT !.V[x] = Or8(s.V[x], s.V[y])])

op_8xy2(s, x, y) == reset_vf([s EXCEPT !.V[x] = And8(s.V[x], s.V[y])])

op_8xy3(s, x, y) == reset_vf([s EXCEPT !.V[x] = Xor8(s.V[x], s.V[y])])

\* u8::overflowing_add / overflowing_sub: <<result, overflowed>>
overflowing_add(a, b) == << (a + b) % 256, a + b > 255 >>
overflowing_sub(a, b) == << (a - b + 256) % 256, a < b >>

\* op_8xy4 with the carry taken one too early (a + b >= 255).
op_8xy4_early_carry(s, x, y) ==
    LET s1 == [s EXCEPT !.V[x] = (s.V[x] + s.V[y]) % 256]
    IN  [s1 EXCEPT !.V[15] = IF s.V[x] + s.V[y] >= 255 THEN 1 ELSE 0]

op_8xy4(s, x, y) ==
    LET r == overflowing_add(s.V[x], s.V[y])
        s1 == [s EXCEPT !.V[x] = r[1]]
    IN  [s1 EXCEPT !.V[15] = IF r[2] THEN 1 ELSE 0]

\* op_8xy5 with VF = borrow instead of NOT borrow.
op_8xy5_flag_is_borrow(s, x, y) ==
    LET r == overflowing_sub(s.V[x], s.V[y])
        s1 == [s EXCEPT !.V[x] = r[1]]
    IN  [s1 EXCEPT !.V[15] = IF r[2] THEN 1 ELSE 0]

op_8xy5(s, x, y) ==
    LET r == overflowing_sub(s.V[x], s.V[y])
        s1 == [s EXCEPT !.V[x] = r[1]]
    IN  [s1 EXCEPT !.V[15] = IF ~r[2] THEN 1 ELSE 0]

op_8xy6(s, x, y) ==
    LET s1 == IF s.mode # "SuperChip" THEN [s EXCEPT !.V[x] = s.V[y]] ELSE s
        bit == And8(s1.V[x], 1)
        s2 == [s1 EXCEPT !.V[x] = Shr(s1.V[x], 1)]
    IN  [s2 EXCEPT !.V[15] = bit]

\* op_8xy7 writing the flag before the result.
op_8xy7_flag_first(s, x, y) ==
    LET r == overflowing_sub(s.V[y], s.V[x])
        s1 == [s EXCEPT !.V[15] = IF ~r[2] THEN 1 ELSE 0]
    IN  [s1 EXCEPT !.V[x] = r[1]]

op_8xy7(s, x, y) ==
    LET r == overflowing_sub(s.V[y], s.V[x])
        s1 == [s EXCEPT !.V[x] = r[1]]
    IN  [s1 EXCEPT !.V[15] = IF ~r[2] THEN 1 ELSE 0]

\* op_8xye that shifts Vx in every mode, never copying Vy first.
op_8xye_never_copies(s, x, y) ==
    LET bit == And8(Shr(s.V[x], 7), 1)
        s2 == [s EXCEPT !.V[x] = (s.V[x] * 2) % 256]
    IN  [s2 EXCEPT !.V[15] = bit]

op_8xye(s, x, y) ==
    LET s1 == IF s.mode # "SuperChip" THEN [s EXCEPT !.V[x] = s.V[y]] ELSE s
        bit == And8(Shr(s1.V[x], 7), 1)
        s2 == [s1 EXCEPT !.V[x] = (s1.V[x] * 2) % 256]
    IN  [s2 EXCEPT !.V[15] = bit]

op_9xy0(s, x, y) == IF s.V[x] # s.V[y] THEN [s EXCEPT !.PC = s.PC + 2] ELSE s

op_annn(s, addr) == [s EXCEPT !.I = addr]

op_bnnn(s, addr) == [s EXCEPT !.PC = addr + s.V[0]]

\* op_bxnn adding V0 as op_bnnn does.
op_bxnn_uses_v0(s, x, xnn) == [s EXCEPT !.PC = xnn + s.V[0]]

op_bxnn(s, x, xnn) == [s EXCEPT !.PC = xnn + s.V[x]]

\* rand::thread_rng().gen::<u8>() is the input `random`.
op_cxkk(s, x, kk, random) == [s EXCEPT !.V[x] = And8(random, kk)]

\* The inner loop of op_dxyn from bit_index on, for the sprite row `byte`
\* drawn on screen row y.
RECURSIVE draw_bits(_, _, _, _, _)
draw_bits(s, x_coord, y, byte, bit_index) ==
    IF bit_index >= SPRITE_WIDTH THEN s
    ELSE IF s.mode # "XOChip" /\ x_coord + bit_index >= width(s.display) THEN s
    ELSE LET x == (x_coord + bit_index) % width(s.display)
             bit == And8(Shr(byte, 7 - bit_index), 1)
             r == set_pixel(s.display, x, y, bit)
         IN  draw_bits([s EXCEPT !.display = r.display,
                                 !.V[15] = Or8(s.V[15], r.ret)],
                       x_coord, y, byte, bit_index + 1)

\* The outer loop of op_dxyn from byte_index on.
RECURSIVE draw_rows(_, _, _, _, _)
draw_rows(s, x_coord, y_coord, n, byte_index) ==
    IF byte_index >= n THEN s
    ELSE IF s.mode # "XOChip" /\ y_coord + byte_index >= height(s.display) THEN s
    ELSE IF ~mem_in(s.I + byte_index) THEN Panic(s, "index out of bounds")
    ELSE LET y == (y_coord + byte_index) % height(s.display)
             byte == mem_get(s.memory, s.I + byte_index)
         IN  draw_rows(draw_bits(s, x_coord, y, byte, 0),
                       x_coord, y_coord, n, byte_index + 1)

\* op_dxyn anchoring at (Vx, Vy) without reducing them to the screen.
op_dxyn_anchor_unreduced(s, x, y, n) ==
    draw_rows([s EXCEPT !.V[15] = 0], s.V[x], s.V[y], n, 0)

\* op_dxyn without its "self.V[0xF] = 0".
op_dxyn_keeps_flag(s, x, y, n) ==
    LET x_coord == s.V[x] % width(s.display)
        y_coord == s.V[y] % height(s.display)
    IN  draw_rows(s, x_coord, y_coord, n, 0)

op_dxyn(s, x, y, n) ==
    LET x_coord == s.V[x] % width(s.display)
        y_coord == s.V[y] % height(s.display)
    IN  draw_rows([s EXCEPT !.V[15] = 0], x_coord, y_coord, n, 0)

\* self.input.is_key_pressed(hex_key): key_state[hex_key as usize]
key_in(hex_key) == hex_key < KEYS_NUM
is_key_pressed(input, hex_key) == input.key_state[hex_key]

op_ex9e(s, x) ==
    IF ~key_in(s.V[x]) THEN Panic(s, "index out of bounds")
    ELSE IF is_key_pressed(s.input, s.V[x]) THEN [s EXCEPT !.PC = s.PC + 2] ELSE s

op_exa1(s, x) ==
    IF ~key_in(s.V[x]) THEN Panic(s, "index out of bounds")
    ELSE IF ~is_key_pressed(s.input, s.V[x]) THEN [s EXCEPT !.PC = s.PC + 2] ELSE s

op_fx07(s, x) == [s EXCEPT !.V[x] = s.delay_timer]

op_fx0a(s, x) == [s EXCEPT !.release_key_register = Some(x)]

op_fx15(s, x) == [s EXCEPT !.delay_timer = s.V[x]]

op_fx18(s, x) == [s EXCEPT !.sound_timer = s.V[x]]

\* self.I += v on a u16: past 65535 it panics (debug) or wraps (release).
add_to_I(s, v) ==
    IF s.I + v > 65535
    THEN IF s.overflow_checks THEN Panic(s, "attempt to add with overflow")
         ELSE [s EXCEPT !.I = (s.I + v) % 65536]
    ELSE [s EXCEPT !.I = s.I + v]

op_fx1e(s, x) == add_to_I(s, s.V[x])

op_fx29(s, x) == [s EXCEPT !.I = s.V[x] * 5]

\* self.memory[addr] = value: in bounds or a panic; nothing after a panic.
store(s, addr, value) ==
    IF s.panic # "" THEN s
    ELSE IF ~mem_in(addr) THEN Panic(s, "index out of bounds")
    ELSE [s EXCEPT !.memory = mem_set(s.memory, addr, value)]

\* op_fx33 with the tens digit taken from Vx / 10 without the reduction.
op_fx33_tens_unreduced(s, x) ==
    LET s1 == store(s, s.I, s.V[x] \div 100)
        s2 == store(s1, s.I + 1, s.V[x] \div 10)
    IN  store(s2, s.I + 2, s.V[x] % 10)

op_fx33(s, x) ==
    LET s1 == store(s, s.I, s.V[x] \div 100)
        s2 == store(s1, s.I + 1, (s.V[x] % 100) \div 10)
    IN  store(s2, s.I + 2, s.V[x] % 10)

\* if self.mode != Mode::SuperChip { self.I += self.V[x] as u16; self.I += 1; }
advance_I(s, x) ==
    IF s.panic # "" \/ s.mode = "SuperChip" THEN s
    ELSE LET s1 == add_to_I(s, s.V[x])
         IN  IF s1.panic # "" THEN s1 ELSE add_to_I(s1, 1)

\* for offset in from..=x { self.memory[self.I + offset] = self.V[offset] }
RECURSIVE store_registers(_, _, _)
store_registers(s, offset, x) ==
    IF offset > x \/ s.panic # "" THEN s
    ELSE store_registers(store(s, s.I + offset, s.V[offset]), offset + 1, x)

op_fx55(s, x) == advance_I(store_registers(s, 0, x), x)

\* for offset in from..=x { self.V[offset] = self.memory[self.I + offset] }
RECURSIVE load_registers(_, _, _)
load_registers(s, offset, x) ==
    IF offset > x \/ s.panic # "" THEN s
    ELSE IF ~mem_in(s.I + offset) THEN Panic(s, "index out of bounds")
    ELSE load_registers([s EXCEPT !.V[offset] = mem_get(s.memory, s.I + offset)],
                        offset + 1, x)

op_fx65(s, x) == advance_I(load_registers(s, 0, x), x)

\* The match of execute_opcode; an arm whose guard fails falls through to
\* the arms below it, as in Rust.
execute_opcode(s, op, random) ==
    LET kk == mask(op, \h00FF)
        nnn == mask(op, \h0FFF)
        x == Shr(mask(op, \h0F00), 8)
        y == Shr(mask(op, \h00F0), 4)
        n == mask(op, \h000F)
        g1 == mask(op, \hF000)
        g2 == mask(op, \h0F00)
        g3 == mask(op, \h00F0)
        g4 == mask(op, \h000F)
        g84 == mask(op, \hF00F)
        g12 == mask(op, \h00FF)
    IN  CASE g1 = \h0000 ->
                IF g2 = \h0000
                THEN IF g3 = \h00C0 /\ (s.mode = "SuperChip" \/ s.mode = "XOChip")
                          THEN op_00cn(s, n)
                     ELSE IF g3 = \h00D0 /\ s.mode = "XOChip" THEN op_00dn(s, n)
                     ELSE IF g3 = \h00E0
                          THEN IF g4 = \h0000 THEN op_00e0(s)
                               ELSE IF g4 = \h000E THEN op_00ee(s)
                               ELSE unknown_opcode(s, op)
                     ELSE IF g3 = \h00F0
                          THEN IF g4 = \h000B THEN op_00fb(s)
                               ELSE IF g4 = \h000C THEN op_00fc(s)
                               ELSE IF g4 = \h000E THEN op_00fe(s)
                               ELSE IF g4 = \h000F THEN op_00ff(s)
                               ELSE unknown_opcode(s, op)
                     ELSE unknown_opcode(s, op)
                ELSE op_0nnn(s, nnn)
          [] g1 = \h1000 -> op_1nnn(s, nnn)
          [] g1 = \h2000 -> op_2nnn(s, nnn)
          [] g1 = \h3000 -> op_3xkk(s, x, kk)
          [] g1 = \h4000 -> op_4xkk(s, x, kk)
          [] g1 = \h5000 -> op_5xy0(s, x, y)
          [] g1 = \h6000 -> op_6xkk(s, x, kk)
          [] g1 = \h7000 -> op_7xkk(s, x, kk)
          [] g1 = \h8000 ->
                CASE g84 = \h8000 -> op_8xy0(s, x, y)
                  [] g84 = \h8001 -> op_8xy1(s, x, y)
                  [] g84 = \h8002 -> op_8xy2(s, x, y)
                  [] g84 = \h8003 -> op_8xy3(s, x, y)
                  [] g84 = \h8004 -> op_8xy4(s, x, y)
                  [] g84 = \h8005 -> op_8xy5(s, x, y)
                  [] g84 = \h8006 -> op_8xy6(s, x, y)
                  [] g84 = \h8007 -> op_8xy7(s, x, y)
                  [] g84 = \h800E -> op_8xye(s, x, y)
                  [] OTHER -> unknown_opcode(s, op)
          [] g1 = \h9000 -> op_9xy0(s, x, y)
          [] g1 = \hA000 -> op_annn(s, nnn)
          [] g1 = \hB000 ->
                IF s.mode # "SuperChip" THEN op_bnnn(s, nnn)
                ELSE IF s.mode = "SuperChip" THEN op_bxnn(s, x, nnn)
                ELSE unknown_opcode(s, op)
          [] g1 = \hC000 -> op_cxkk(s, x, kk, random)
          [] g1 = \hD000 -> op_dxyn(s, x, y, n)
          [] g1 = \hE000 ->
                CASE g12 = \h009E -> op_ex9e(s, x)
                  [] g12 = \h00A1 -> op_exa1(s, x)
                  [] OTHER -> unknown_opcode(s, op)
          [] g1 = \hF000 ->
                CASE g12 = \h0007 -> op_fx07(s, x)
                  [] g12 = \h000A -> op_fx0a(s, x)
                  [] g12 = \h0015 -> op_fx15(s, x)
                  [] g12 = \h0018 -> op_fx18(s, x)
                  [] g12 = \h001E -> op_fx1e(s, x)
                  [] g12 = \h0029 -> op_fx29(s, x)
                  [] g12 = \h0033 -> op_fx33(s, x)
                  [] g12 = \h0055 -> op_fx55(s, x)
                  [] g12 = \h0065 -> op_fx65(s, x)
                  [] OTHER -> unknown_opcode(s, op)
          [] OTHER -> unknown_opcode(s, op)

\* wait_for_next_key that stores the key but stays in the wait.
wait_for_next_key_stays(s, register) ==
    LET r == get_next_released_key(s.input)
        s1 == [s EXCEPT !.input = r.input]
    IN  IF r.ret # None
        THEN [s1 EXCEPT !.V[register] = r.ret[1]]
        ELSE s1

wait_for_next_key(s, register) ==
    LET r == get_next_released_key(s.input)
        s1 == [s EXCEPT !.input = r.input]
    IN  IF r.ret # None
        THEN [s1 EXCEPT !.V[register] = r.ret[1], !.release_key_register = None]
        ELSE s1

\* emulate_cycle: the result is the Chip8 and the opcode it fetched (-1 in
\* a key-wait cycle, which fetches none).
emulate_cycle(s, random) ==
    IF s.release_key_register # None
    THEN [ chip8 |-> wait_for_next_key(s, s.release_key_register[1]),
           opcode |-> -1 ]
    ELSE LET f == fetch_opcode(s)
         IN  IF f.chip8.panic # "" THEN f
             ELSE [ chip8 |-> execute_opcode(f.chip8, f.opcode, random),
                    opcode |-> f.opcode ]

\* update_timers decrementing both timers whatever they hold.
update_timers_wraps(s) ==
    LET s1 == [s EXCEPT !.delay_timer = (s.delay_timer + 255) % 256]
    IN  IF s1.sound_timer > 0
        THEN [s1 EXCEPT !.audio = audio_start(s1.audio),
                        !.sound_timer = s1.sound_timer - 1]
        ELSE [s1 EXCEPT !.audio = audio_stop(s1.audio),
                        !.sound_timer = 255]

\* update_timers that does nothing while a key-wait is pending.
update_timers_skips_while_waiting(s) ==
    IF s.release_key_register # None THEN s
    ELSE LET s1 == IF s.delay_timer > 0
                   THEN [s EXCEPT !.delay_timer = s.delay_timer - 1]
                   ELSE s
         IN  IF s1.sound_timer > 0
             THEN [s1 EXCEPT !.audio = audio_start(s1.audio),
                             !.sound_timer = s1.sound_timer - 1]
             ELSE [s1 EXCEPT !.audio = audio_stop(s1.audio)]

update_timers(s) ==
    LET s1 == IF s.delay_timer > 0
              THEN [s EXCEPT !.delay_timer = s.delay_timer - 1]
              ELSE s
    IN  IF s1.sound_timer > 0
        THEN [s1 EXCEPT !.audio = audio_start(s1.audio),
                        !.sound_timer = s1.sound_timer - 1]
        ELSE [s1 EXCEPT !.audio = audio_stop(s1.audio)]

\* load_program_rom: the bytes of the ROM file read into a zeroed buffer
\* from ROM_START_ADDRESS on.
load_program_rom(rom) ==
    [ a \in { ROM_START_ADDRESS + i - 1 : i \in { j \in 1..Len(rom) : rom[j] # 0 } }
        |-> rom[a - ROM_START_ADDRESS + 1] ]

(***************************************************************************)
(* lib.rs: run().  One loop iteration runs a cycle when the cycle timer    *)
(* has elapsed, a frame when the frame timer has, and then tests           *)
(* should_quit(); which timers have elapsed is the scheduler's input.      *)
(* Cycle and Frame are those two blocks, Quit is the break.  Only          *)
(* update() sets quit, so once it is set the iteration that set it may     *)
(* still run its frame block and then breaks.                              *)
(***************************************************************************)
MaxFrames == 2

\* The byte thread_rng() may give: read only by Cxkk.
next_is_random(s) ==
    /\ s.release_key_register = None
    /\ mem_in(s.PC)
    /\ mem_get(s.memory, s.PC) \div 16 = 12

\* if last_cycle.elapsed() >= cycle_duration { emulate_cycle(); input.update(); }
\* `events` are the SDL events the pump holds at the update.
Cycle(events) ==
    /\ ~done
    /\ chip8.panic = ""
    /\ ~should_quit(chip8.input)
    /\ \E random \in (IF next_is_random(chip8) THEN Byte ELSE {0}) :
         LET c == emulate_cycle(chip8, random)
         IN  /\ chip8' = IF c.chip8.panic # "" THEN c.chip8
                         ELSE [c.chip8 EXCEPT !.input = update(c.chip8.input, events)]
             /\ fetched' = c.opcode
             /\ ret' = [args |-> IF c.chip8.panic # "" THEN << >> ELSE events,
                        value |-> 0]
    /\ step' = IF chip8.release_key_register # None THEN "wait" ELSE "cycle"
    /\ pre' = chip8
    /\ UNCHANGED <<done, frames>>

\* if last_frame.elapsed() >= frame_duration { display.render(); update_timers(); }
Frame ==
    /\ ~done
    /\ chip8.panic = ""
    /\ frames < MaxFrames
    /\ ~should_quit(chip8.input) \/ step # "frame"
    /\ chip8' = update_timers([chip8 EXCEPT !.display = render(chip8.display)])
    /\ step' = "frame"
    /\ fetched' = -1
    /\ pre' = chip8
    /\ frames' = frames + 1
    /\ UNCHANGED <<done, ret>>

\* if chip8.input.should_quit() { break; }
Quit ==
    /\ ~done
    /\ chip8.panic = ""
    /\ should_quit(chip8.input)
    /\ done' = TRUE
    /\ step' = "quit"
    /\ fetched' = -1
    /\ pre' = chip8
    /\ UNCHANGED <<chip8, ret, frames>>

(***************************************************************************)
(* ROM files.  A ROM is the sequence of its bytes; the words of a program  *)
(* are stored big-endian.                                                  *)
(***************************************************************************)
rom_of(words) ==
    [ i \in 1..(2 * Len(words)) |->
        IF i % 2 = 1 THEN words[(i + 1) \div 2] \div 256 ELSE words[i \div 2] % 256 ]

\* Instruction words.
LD(x, kk) == \h6000 + x * 256 + kk
ALU(x, y, n) == \h8000 + x * 256 + y * 16 + n
LDI(nnn) == \hA000 + nnn
DRW(x, y, n) == \hD000 + x * 256 + y * 16 + n
LDK(x) == \hF00A + x * 256
LORES == \h00FE
RET == \h00EE
SCD(n) == \h00C0 + n
SCU(n) == \h00D0 + n
SCR == \h00FB
SCL == \h00FC
CALL(nnn) == \h2000 + nnn
JP(nnn) == \h1000 + nnn
JPV(nnn) == \hB000 + nnn
HIRES == \h00FF
LDF(x) == \hF029 + x * 256
BCD(x) == \hF033 + x * 256
STO(x) == \hF055 + x * 256
LDDT(x) == \hF015 + x * 256
LDST(x) == \hF018 + x * 256
LDR(x) == \hF065 + x * 256

\* `ret` when no DisplayManager method has been called directly.
no_call == [args |-> << >>, value |-> 0]

\* main(): the VM run() starts from, for a ROM file, a mode and a build.
InitWith(roms, modes, builds) ==
    /\ \E rom \in roms, mode \in modes, overflow_checks \in builds :
         chip8 = Chip8_new(mode, load_program_rom(rom), overflow_checks)
    /\ done = FALSE
    /\ step = "init"
    /\ fetched = -1
    /\ pre = chip8
    /\ ret = no_call
    /\ frames = 0

\* Register values used where a claim does not range over every byte.
SampleBytes == {0, 1, 5, 15, 16, 100, 127, 128, 200, 205, 254, 255}

(***************************************************************************)
(* SpecAdd: the programs "Vx = a; Vy = b; Vx += Vy" for every pair of      *)
(* bytes in V0, V1, and for sample bytes in other register pairs.          *)
(***************************************************************************)
AluRoms(ns, pairs, values) ==
    { rom_of(<< LD(p[1], a), LD(p[2], b), ALU(p[1], p[2], n) >>) :
        p \in pairs, a \in values, b \in values, n \in ns }

OtherPairs == { <<1, 1>>, <<0, 15>>, <<14, 15>> }

InitAdd ==
    InitWith(AluRoms({4}, { <<0, 1>> }, Byte) \cup AluRoms({4}, OtherPairs, SampleBytes),
             Mode, {FALSE})

NextCycles == Cycle(<< >>)

SpecAdd == InitAdd /\ [][NextCycles]_vars

\* The fields of the opcode the last cycle fetched.
fx == (fetched \div 256) % 16
fy == (fetched \div 16) % 16
fn == fetched % 16
fkk == fetched % 256
fnnn == fetched % 4096
fgroup == fetched \div 4096
executed == step = "cycle" /\ fetched >= 0

\* C1: after add reg,reg (8xy4) with x # 0xF, Vx is (a + b) mod 256 and VF
\* is 1 if a + b > 255 and 0 otherwise, for the bytes a, b that Vx and Vy
\* held, in every mode.
C1_AddCarry ==
    (executed /\ fgroup = 8 /\ fn = 4 /\ fx # 15) =>
        LET a == pre.V[fx]
            b == pre.V[fy]
        IN  /\ chip8.V[fx] = (a + b) % 256
            /\ chip8.V[15] = (IF a + b > 255 THEN 1 ELSE 0)

C1_Witness ==
    /\ executed /\ fetched = ALU(0, 1, 4) /\ chip8.mode = "SuperChip"
    /\ pre.V[0] = 200 /\ pre.V[1] = 100
    /\ chip8.V[0] = 44 /\ chip8.V[15] = 1

(***************************************************************************)
(* SpecSub: "V0 = a; V1 = b; V0 -= V1; V1 = V0 - V1" for every pair of     *)
(* bytes: the second subtraction has Vx = b and Vy = (a - b) mod 256,      *)
(* which again ranges over every pair.  Sample bytes in the other pairs.   *)
(***************************************************************************)
SubRoms(values) ==
    { rom_of(<< LD(0, a), LD(1, b), ALU(0, 1, 5), ALU(1, 0, 7) >>) :
        a \in values, b \in values }

InitSub ==
    InitWith(SubRoms(Byte) \cup AluRoms({5, 7}, OtherPairs, SampleBytes), Mode, {FALSE})

SpecSub == InitSub /\ [][NextCycles]_vars

\* C2: sub reg,reg wraps modulo 256 and sets VF = 1 iff no borrow occurred,
\* in every mode: 8xy5 leaves Vx = (a - b) mod 256 and VF = 1 iff a >= b;
\* 8xy7 leaves Vx = (b - a) mod 256 and VF = 1 iff b >= a (x # 0xF), for
\* the bytes a, b that Vx, Vy held.
C2_SubNoBorrow ==
    (executed /\ fgroup = 8 /\ fx # 15) =>
        LET a == pre.V[fx]
            b == pre.V[fy]
        IN  /\ fn = 5 => /\ chip8.V[fx] = (a - b) % 256
                         /\ chip8.V[15] = (IF a >= b THEN 1 ELSE 0)
            /\ fn = 7 => /\ chip8.V[fx] = (b - a) % 256
                         /\ chip8.V[15] = (IF b >= a THEN 1 ELSE 0)

\* V0 = 5, V1 = 10: 8015 borrowed (V0 = 251, VF = 0), then 8107 did not.
C2_Witness ==
    /\ executed /\ fetched = ALU(1, 0, 7) /\ chip8.mode = "XOChip"
    /\ pre.V[0] = 251 /\ pre.V[1] = 10 /\ pre.V[15] = 0
    /\ chip8.V[1] = 241 /\ chip8.V[15] = 1

(***************************************************************************)
(* SpecBitwise: "VF = f; Vx = a; Vy = b; Vx op= Vy" for OR, AND and XOR.   *)
(***************************************************************************)
FlagBytes == {0, 1, 171}

BitwiseRoms(flags, values) ==
    { rom_of(<< LD(15, f), LD(p[1], a), LD(p[2], b), ALU(p[1], p[2], n) >>) :
        f \in flags, p \in { <<0, 1>> } \cup OtherPairs,
        a \in values, b \in values, n \in {1, 2, 3} }

InitBitwise == InitWith(BitwiseRoms(FlagBytes, SampleBytes), Mode, {FALSE})

SpecBitwise == InitBitwise /\ [][NextCycles]_vars

\* The bits of a byte as the set of their positions, and back.
bits_of(v) == { i \in 0..7 : (v \div Pow2(i)) % 2 = 1 }
RECURSIVE byte_of(_)
byte_of(S) == IF S = {} THEN 0 ELSE LET i == CHOOSE j \in S : TRUE
                                    IN  Pow2(i) + byte_of(S \ {i})

\* C3: OR/AND/XOR (8xy1, 8xy2, 8xy3) store the bitwise combination in Vx;
\* in Chip8 mode VF is then 0 whatever it held, in SuperChip and XOChip
\* modes VF keeps the value it had before the opcode (x # 0xF).
C3_BitwiseFlag ==
    (executed /\ fgroup = 8 /\ fn \in {1, 2, 3} /\ fx # 15) =>
        LET a == bits_of(pre.V[fx])
            b == bits_of(pre.V[fy])
        IN  /\ fn = 1 => chip8.V[fx] = byte_of(a \cup b)
            /\ fn = 2 => chip8.V[fx] = byte_of(a \cap b)
            /\ fn = 3 => chip8.V[fx] = byte_of((a \ b) \cup (b \ a))
            /\ chip8.mode = "Chip8" => chip8.V[15] = 0
            /\ chip8.mode # "Chip8" => chip8.V[15] = pre.V[15]

\* Chip8 mode, VF = 171 before "V0 |= V1" with V0 = 5, V1 = 16.
C3_Witness ==
    /\ executed /\ fetched = ALU(0, 1, 1) /\ chip8.mode = "Chip8"
    /\ pre.V[15] = 171 /\ pre.V[0] = 5 /\ pre.V[1] = 16
    /\ chip8.V[0] = 21 /\ chip8.V[15] = 0

(***************************************************************************)
(* SpecDraw: "V0 = a; V1 = b; I = sprite; draw V0, V1, 1; draw V0, V1, 1"  *)
(* with the one-row sprite 0xFF stored in the ROM after the program, for   *)
(* every pair of bytes a, b.                                               *)
(***************************************************************************)
DrawTwiceRoms(xs, ys) ==
    { rom_of(<< LD(0, a), LD(1, b), LDI(ROM_START_ADDRESS + 10),
                DRW(0, 1, 1), DRW(0, 1, 1) >>) \o << \hFF >> :
        a \in xs, b \in ys }

\* Every position of the 64x32 screen, and register values beyond it.
AnchorXs == 0..(X_DIM_LORES - 1) \cup {64, 71, 127, 128, 252, 255}
AnchorYs == 0..(Y_DIM_LORES - 1) \cup {32, 63, 64, 255}

InitDraw == InitWith(DrawTwiceRoms(AnchorXs, AnchorYs), Mode, {FALSE})

SpecDraw == InitDraw /\ [][NextCycles]_vars

\* The cells an 8-pixel row anchored at (Vx mod width, Vy mod height)
\* touches: wrapped around the right edge in XOChip mode, cut at it in the
\* other modes.
touched_row(s, vx, vy) ==
    LET w == s.display.VRAM.width
        h == s.display.VRAM.height
    IN  { << (IF s.mode = "XOChip" THEN ((vx % w) + i) % w ELSE (vx % w) + i), vy % h >> :
            i \in { j \in 0..7 : s.mode = "XOChip" \/ (vx % w) + j < w } }

lit(d) == DOMAIN d.VRAM.cells

\* The last cycle drew the one-row sprite 0xFF.
drew_ff_row ==
    /\ executed /\ fgroup = 13 /\ fn = 1 /\ chip8.panic = ""
    /\ mem_get(pre.memory, pre.I) = 255

\* C4: on an empty framebuffer, in every mode and at every anchor (Vx, Vy),
\* drawing the one-row sprite 0xFF sets VF = 0 and turns on the pixels it
\* touches; drawing it again at the same coordinates sets VF = 1 and leaves
\* the framebuffer clear.
C4_DrawTwice ==
    drew_ff_row =>
        LET t == touched_row(pre, pre.V[fx], pre.V[fy])
        IN  /\ lit(pre.display) = {} =>
                /\ chip8.V[15] = 0
                /\ lit(chip8.display) = t
                /\ \A p \in t : chip8.display.VRAM.cells[p] = 1
            /\ (lit(pre.display) = t /\ \A p \in t : pre.display.VRAM.cells[p] = 1) =>
                /\ chip8.V[15] = 1
                /\ lit(chip8.display) = {}

\* The second draw at (60, 31) in SuperChip mode: four pixels were lit.
C4_Witness ==
    /\ drew_ff_row /\ chip8.mode = "SuperChip"
    /\ pre.V[0] = 252 /\ pre.V[1] = 63
    /\ lit(pre.display) = { <<60, 31>>, <<61, 31>>, <<62, 31>>, <<63, 31>> }
    /\ chip8.V[15] = 1 /\ lit(chip8.display) = {}

(***************************************************************************)
(* Spec: the run loop with its event pump and frame timer, on the programs *)
(* "Vx = 0x55; Vx = key; V4 = 0x77" and "draw glyph 0; V3 = key; draw      *)
(* glyph 0".                                                               *)
(***************************************************************************)
KeyWaitRoms(xs) == { rom_of(<< LD(x, \h55), LDK(x), LD(4, \h77) >>) : x \in xs }

KeyEvent(type, scancode) == [type |-> type, scancode |-> scancode]

\* What the pump may hold at one update(): nothing, one event or two.
EventBatches ==
    { << >>,
      << KeyEvent("KeyDown", "Z") >>,
      << KeyEvent("KeyUp", "Z") >>,
      << KeyEvent("KeyUp", "X") >>,
      << KeyEvent("KeyDown", "Z"), KeyEvent("KeyUp", "Z") >>,
      << KeyEvent("KeyUp", "X"), KeyEvent("KeyUp", "Z") >>,
      << KeyEvent("KeyUp", "F1") >>,
      << KeyEvent("MouseMotion", "") >>,
      << KeyEvent("KeyDown", "Escape") >>,
      << KeyEvent("Quit", "") >> }

DrawWaitRoms == { rom_of(<< DRW(0, 0, 5), LDK(3), DRW(0, 0, 5) >>) }

Init == InitWith(KeyWaitRoms({0, 3, 15}) \cup DrawWaitRoms, Mode, {FALSE})

Next ==
    \/ \E events \in EventBatches : Cycle(events)
    \/ Frame
    \/ Quit

Spec == Init /\ [][Next]_vars

\* The big-endian word at addr.
word_at(s, addr) == mem_get(s.memory, addr) * 256 + mem_get(s.memory, addr + 1)

\* C5: executing Fx0A leaves the VM waiting for a release into Vx; a cycle
\* spent waiting fetches no instruction and leaves PC, memory, the stack, I
\* and the registers as they were, except that the cycle in which the input
\* delivers a released key k writes Vx = k and ends the wait; PC then still
\* is the address following the Fx0A instruction, where the next cycle
\* fetches.
C5_KeyWait ==
    /\ (executed /\ fgroup = 15 /\ fkk = \h0A) =>
          /\ chip8.release_key_register = Some(fx)
          /\ chip8.PC = pre.PC + 2
    /\ step = "wait" =>
          LET x == pre.release_key_register[1]
              q == pre.input.released_key_queue
          IN  /\ fetched = -1
              /\ chip8.PC = pre.PC
              /\ chip8.memory = pre.memory
              /\ chip8.stack = pre.stack /\ chip8.SP = pre.SP
              /\ chip8.I = pre.I
              /\ \A i \in 0..(V_COUNT - 1) : i # x => chip8.V[i] = pre.V[i]
              /\ word_at(chip8, chip8.PC - 2) = LDK(x)
              /\ IF q = None
                 THEN /\ chip8.V[x] = pre.V[x]
                      /\ chip8.release_key_register = Some(x)
                 ELSE /\ chip8.V[x] = q[1]
                      /\ chip8.release_key_register = None
    /\ executed =>
          /\ pre.release_key_register = None
          /\ fetched = word_at(pre, pre.PC)

\* The release of Z (key 0xA) delivered to the wait on V3, and the
\* instruction after F30A executed next.
C5_Witness ==
    /\ executed /\ fetched = LD(4, \h77)
    /\ word_at(pre, pre.PC - 2) = LDK(3)
    /\ chip8.V[3] = 10 /\ chip8.V[4] = \h77

(***************************************************************************)
(* SpecBcd: "I = addr; Vx = v; store BCD of Vx" for every byte v, with     *)
(* addr in free memory, in the font area and at the end of memory; and     *)
(* the program "V0 = 5; V1 = 205; I = glyph of V0; store BCD of V1".       *)
(***************************************************************************)
BcdAddrs == {0, ROM_START_ADDRESS + 256, MEMORY_SIZE - 3, MEMORY_SIZE - 2, MEMORY_SIZE - 1}

BcdRoms(addrs, xs, values) ==
    { rom_of(<< LDI(addr), LD(x, v), BCD(x) >>) :
        addr \in addrs, x \in xs, v \in values }
    \cup { rom_of(<< LD(0, 5), LD(1, 205), LDF(0), BCD(1) >>) }

InitBcd == InitWith(BcdRoms(BcdAddrs, {0, 7, 15}, Byte), Mode, {FALSE})

SpecBcd == InitBcd /\ [][NextCycles]_vars

\* C6: Fx33 writes the hundreds, tens and ones digits of Vx to memory[I],
\* memory[I+1], memory[I+2], each in 0..9 and together worth Vx, and leaves
\* I and every register unchanged; Fx29 with Vx = 5 gives I = 25, and the
\* BCD of 205 stored there leaves memory[25..27] = 2, 0, 5.
C6_StoreBcd ==
    /\ (executed /\ fgroup = 15 /\ fkk = \h33 /\ chip8.panic = "") =>
          LET v == pre.V[fx]
              m0 == mem_get(chip8.memory, pre.I)
              m1 == mem_get(chip8.memory, pre.I + 1)
              m2 == mem_get(chip8.memory, pre.I + 2)
          IN  /\ {m0, m1, m2} \subseteq 0..9
              /\ 100 * m0 + 10 * m1 + m2 = v
              /\ chip8.I = pre.I
              /\ chip8.V = pre.V
              /\ (pre.I = 25 /\ v = 205) => <<m0, m1, m2>> = <<2, 0, 5>>
    /\ (executed /\ fgroup = 15 /\ fkk = \h29 /\ pre.V[fx] = 5) => chip8.I = 25

\* The BCD of 205 stored at the glyph address of digit 5.
C6_Witness ==
    /\ executed /\ fetched = BCD(1) /\ chip8.panic = ""
    /\ pre.I = 25 /\ pre.V[1] = 205
    /\ mem_get(pre.memory, 25) = \hF0
    /\ mem_get(chip8.memory, 25) = 2
    /\ mem_get(chip8.memory, 26) = 0
    /\ mem_get(chip8.memory, 27) = 5

(***************************************************************************)
(* SpecRes: programs that draw a font glyph, switch resolution, possibly   *)
(* draw again, and switch again; started in low resolution or, after a     *)
(* leading 00FF, in high resolution.                                       *)
(***************************************************************************)
ResXs == {0, 30, 60, 100, 127}
ResYs == {0, 20, 30, 60}

ResRoms(xs, ys) ==
    { rom_of(lead \o << LD(0, a), LD(1, b), LDI(glyph), DRW(0, 1, 5), first >>
                  \o again \o << second >>) :
        lead \in { << >>, << HIRES >> },
        a \in xs, b \in ys, glyph \in {0, 40},
        first \in {LORES, HIRES},
        again \in { << >>, << DRW(0, 1, 5) >> },
        second \in {LORES, HIRES} }

InitRes == InitWith(ResRoms(ResXs, ResYs), Mode, {FALSE})

SpecRes == InitRes /\ [][NextCycles]_vars

all_zero(d) ==
    /\ lit(d) = {}
    /\ \A x \in 0..(width(d) - 1), y \in 0..(height(d) - 1) : vram_read(d, x, y) = 0

\* C7: whatever the framebuffer held, a switch to high resolution (00FF)
\* leaves a 128x64 framebuffer and a switch to low resolution (00FE) a
\* 64x32 one, in both cases with every pixel 0; so 00FF followed by 00FE
\* yields the 64x32 framebuffer fully cleared.
C7_ResolutionSwitch ==
    /\ (executed /\ fetched = HIRES) =>
          /\ width(chip8.display) = X_DIM_HIRES
          /\ height(chip8.display) = Y_DIM_HIRES
          /\ all_zero(chip8.display)
    /\ (executed /\ fetched = LORES) =>
          /\ width(chip8.display) = X_DIM_LORES
          /\ height(chip8.display) = Y_DIM_LORES
          /\ all_zero(chip8.display)

\* Back to low resolution from a high-resolution framebuffer with lit
\* pixels outside the low-resolution area.
C7_Witness ==
    /\ executed /\ fetched = LORES
    /\ width(pre.display) = X_DIM_HIRES
    /\ \E p \in lit(pre.display) : p[1] >= X_DIM_LORES /\ p[2] >= Y_DIM_LORES
    /\ width(chip8.display) = X_DIM_LORES
    /\ all_zero(chip8.display)

(***************************************************************************)
(* SpecDisplay: one call of a public DisplayManager method, as the tests   *)
(* of video.rs make them, on a display of either resolution whose grid     *)
(* holds one of several patterns, before or after a render() of it.  `ret` *)
(* records the arguments and the value returned.                           *)
(***************************************************************************)
Patterns(w, h) ==
    { {},
      { <<x, 0>> : x \in 0..(w - 1) },
      { <<x, h - 1>> : x \in 0..(w - 1) },
      { <<0, y>> : y \in 0..(h - 1) },
      { <<w - 1, y>> : y \in 0..(h - 1) },
      { <<y, y>> : y \in 0..(h - 1) },
      { <<0, 0>>, <<3, 5>>, <<4, 5>>, <<w - 5, 7>>, <<w - 4, 7>>,
        <<10, h - 2>>, <<w - 1, h - 1>> } }

\* The display after set_pixel(x, y, 1) on each cell of `on`.
display_with(resolution, on) ==
    LET d == DisplayManager_new(resolution)
    IN  [d EXCEPT !.VRAM.cells = [p \in on |-> 1],
                  !.update_needed = (on # {})]

InitDisplay ==
    /\ \E resolution \in {"Low", "High"} :
         LET d0 == DisplayManager_new(resolution)
         IN  \E on \in Patterns(width(d0), height(d0)), rendered \in BOOLEAN :
               chip8 = [Chip8_new("XOChip", << >>, FALSE) EXCEPT
                          !.display = IF rendered
                                      THEN render(display_with(resolution, on))
                                      ELSE display_with(resolution, on)]
    /\ done = FALSE
    /\ step = "init"
    /\ fetched = -1
    /\ pre = chip8
    /\ ret = no_call
    /\ frames = 0

Call(name, args, d, value) ==
    /\ step = "init"
    /\ chip8' = [chip8 EXCEPT !.display = d]
    /\ step' = name
    /\ ret' = [args |-> args, value |-> value]
    /\ pre' = chip8
    /\ UNCHANGED <<done, fetched, frames>>

PixelXs(d) == {0, 3, 10, width(d) - 1, width(d)}
PixelYs(d) == {0, 5, height(d) - 1}
ScrollRows(d) == {0, 1, 4, 15, height(d) - 1, height(d)}

SetPixel ==
    \E x \in PixelXs(chip8.display), y \in PixelYs(chip8.display), value \in {0, 1} :
        LET r == set_pixel(chip8.display, x, y, value)
        IN  Call("set_pixel", <<x, y, value>>, r.display, r.ret)

Clear == Call("clear", << >>, clear(chip8.display), 0)

Render == Call("render", << >>, render(chip8.display), 0)

ScrollDown ==
    \E rows \in ScrollRows(chip8.display) :
        Call("scroll_down", <<rows>>, scroll_down(chip8.display, rows), 0)

ScrollUp ==
    \E rows \in ScrollRows(chip8.display) :
        Call("scroll_up", <<rows>>, scroll_up(chip8.display, rows), 0)

ScrollRight == Call("scroll_right", << >>, scroll_right(chip8.display), 0)

ScrollLeft == Call("scroll_left", << >>, scroll_left(chip8.display), 0)

NextDisplay ==
    \/ SetPixel
    \/ Clear
    \/ Render
    \/ ScrollDown
    \/ ScrollUp
    \/ ScrollRight
    \/ ScrollLeft

SpecDisplay == InitDisplay /\ [][NextDisplay]_vars

called(name) == step = name /\ ~chip8.display.oob

same_size(d, e) == width(d) = width(e) /\ height(d) = height(e)

\* Every cell of the grid of `d` holds what `want(x, y)` gives, and the
\* grid has the size of `e`.
grid_is(d, e, want(_, _)) ==
    /\ same_size(d, e)
    /\ \A p \in lit(d) : vram_in(d.VRAM, p[1], p[2])
    /\ \A x \in 0..(width(d) - 1), y \in 0..(height(d) - 1) :
         vram_read(d, x, y) = want(x, y)

\* C8: scroll_down(r) leaves in row y + r the old row y and zeroes rows
\* 0..r-1; scroll_up(r) leaves in row y the old row y + r and zeroes the
\* bottom r rows; scroll_right and scroll_left move every column by 4 and
\* zero the 4 leftmost / rightmost columns; nothing wraps around, so what
\* is shifted past the far edge is lost.
C8_Scroll ==
    LET old == pre.display
        new == chip8.display
        h == height(old)
        w == width(old)
    IN  /\ called("scroll_down") =>
              LET r == ret.args[1]
                  down(x, y) == IF y < r THEN 0 ELSE vram_read(old, x, y - r)
              IN  grid_is(new, old, down)
        /\ called("scroll_up") =>
              LET r == ret.args[1]
                  up(x, y) == IF y >= h - r THEN 0 ELSE vram_read(old, x, y + r)
              IN  grid_is(new, old, up)
        /\ called("scroll_right") =>
              LET right(x, y) == IF x < 4 THEN 0 ELSE vram_read(old, x - 4, y)
              IN  grid_is(new, old, right)
        /\ called("scroll_left") =>
              LET left(x, y) == IF x >= w - 4 THEN 0 ELSE vram_read(old, x + 4, y)
              IN  grid_is(new, old, left)

\* scroll_down(1) on the 128-wide grid whose top row is fully set: row 1
\* is fully set and nothing else is.
C8_Witness ==
    /\ called("scroll_down") /\ ret.args = <<1>>
    /\ width(pre.display) = X_DIM_HIRES
    /\ lit(pre.display) = { <<x, 0>> : x \in 0..(X_DIM_HIRES - 1) }
    /\ lit(chip8.display) = { <<x, 1>> : x \in 0..(X_DIM_HIRES - 1) }

\* The call set_pixel(x, y, bit) on a pixel of the grid.
set_pixel_called ==
    /\ called("set_pixel")
    /\ vram_in(pre.display.VRAM, ret.args[1], ret.args[2])

C10_RenderBatched ==
    step = "frame" =>
        /\ chip8.display.presents =
               pre.display.presents + (IF pre.display.update_needed THEN 1 ELSE 0)
        /\ ~chip8.display.update_needed

\* The frame after the 40-pixel draw of glyph 0: one present.
C10_Witness ==
    /\ step = "frame"
    /\ pre.display.update_needed
    /\ Cardinality(lit(pre.display)) > 8
    /\ chip8.display.presents = pre.display.presents + 1
    /\ ~chip8.display.update_needed

(***************************************************************************)
(* SpecStack: programs that call and return: a subroutine that calls       *)
(* itself, a return with nothing to return to, and calls that return.      *)
(***************************************************************************)
StackRoms(values) ==
    { rom_of(<< LD(0, v), CALL(ROM_START_ADDRESS + 2) >>) : v \in values }
    \cup { rom_of(<< LD(0, v), RET >>) : v \in values }
    \cup { rom_of(<< CALL(ROM_START_ADDRESS + 4), LD(0, v), RET, RET >>) : v \in values }
    \cup { rom_of(<< CALL(ROM_START_ADDRESS + 6), CALL(ROM_START_ADDRESS + 6),
                     RET, LD(0, v), RET >>) : v \in values }

InitStack == InitWith(StackRoms({0, 1, 255}), Mode, {FALSE})

SpecStack == InitStack /\ [][NextCycles]_vars

\* C11: 0 <= SP <= 16 in every state; a call (2nnn) with SP = 16 ends in
\* the stack-overflow error and a return (00EE) with SP = 0 in the
\* stack-underflow error, and both leave SP and the stack as they were.
C11_StackBounds ==
    /\ chip8.SP \in 0..MAX_STACK_LEVELS
    /\ (executed /\ fgroup = 2 /\ pre.SP = MAX_STACK_LEVELS) =>
          /\ chip8.panic = "Stack overflow!"
          /\ chip8.SP = pre.SP
          /\ chip8.stack = pre.stack
    /\ (executed /\ fetched = RET /\ pre.SP = 0) =>
          /\ chip8.panic = "Stack underflow!"
          /\ chip8.SP = pre.SP
          /\ chip8.stack = pre.stack

\* The seventeenth nested call: the stack holds sixteen return addresses.
C11_Witness ==
    /\ executed /\ fgroup = 2
    /\ pre.SP = MAX_STACK_LEVELS
    /\ \A i \in 0..(MAX_STACK_LEVELS - 1) : pre.stack[i] = ROM_START_ADDRESS + 4
    /\ chip8.panic = "Stack overflow!"
    /\ chip8.SP = MAX_STACK_LEVELS

(***************************************************************************)
(* SpecRegs: "V0 = a; V1 = b; I = addr; store V0..Vx" and "I = addr; load  *)
(* V0..Vx", the loads reading the font and the program itself.             *)
(***************************************************************************)
RegsRoms(values) ==
    { rom_of(<< LD(0, a), LD(1, b), LDI(ROM_START_ADDRESS + 256), STO(x) >>) :
        a \in values, b \in values, x \in {0, 1} }
    \cup { rom_of(<< LDI(addr), LDR(x) >>) :
        addr \in {0, 5, ROM_START_ADDRESS}, x \in {0, 1, 3} }

InitRegs == InitWith(RegsRoms({0, 1, 5, 255}), Mode, {FALSE, TRUE})

SpecRegs == InitRegs /\ [][NextCycles]_vars

\* C12: Fx55 copies V0..Vx to memory[I..I+x] and Fx65 copies memory[I..I+x]
\* to V0..Vx; afterwards I is its old value plus x + 1 in Chip8 and XOChip
\* modes, whatever the registers hold, and unchanged in SuperChip mode.
C12_TransferAdvancesI ==
    (executed /\ fgroup = 15 /\ fkk \in {\h55, \h65} /\ chip8.panic = "") =>
        /\ \A i \in 0..fx :
              IF fkk = \h55
              THEN mem_get(chip8.memory, pre.I + i) = pre.V[i]
              ELSE chip8.V[i] = mem_get(pre.memory, pre.I + i)
        /\ chip8.I = (IF chip8.mode = "SuperChip" THEN pre.I ELSE pre.I + fx + 1)

(***************************************************************************)
(* SpecShift: "Vx = a; Vy = b; Vx = shift" for both shifts, with every     *)
(* byte in one register and a fixed byte in the other.                     *)
(***************************************************************************)
ShiftPairs == { <<0, 1>>, <<1, 1>>, <<0, 15>>, <<15, 0>>, <<14, 15>> }

ShiftRoms(pairs, values) ==
    { rom_of(<< LD(p[1], ab[1]), LD(p[2], ab[2]), ALU(p[1], p[2], n) >>) :
        p \in pairs,
        ab \in (values \X {\h55}) \cup ({\hAA} \X values),
        n \in {6, 14} }

InitShift == InitWith(ShiftRoms(ShiftPairs, Byte), Mode, {FALSE})

SpecShift == InitShift /\ [][NextCycles]_vars

\* C13: 8xy6 / 8xyE shift the old Vy in Chip8 and XOChip modes and the old
\* Vx in SuperChip mode; Vx (x # 0xF) receives that value shifted by one
\* bit modulo 256 and VF the bit shifted out: the low bit for the right
\* shift, the high bit for the left shift.
C13_Shift ==
    (executed /\ fgroup = 8 /\ fn \in {6, 14}) =>
        LET v == IF chip8.mode = "SuperChip" THEN pre.V[fx] ELSE pre.V[fy]
        IN  IF fn = 6
            THEN /\ chip8.V[15] = v % 2
                 /\ fx # 15 => chip8.V[fx] = v \div 2
            ELSE /\ chip8.V[15] = v \div 128
                 /\ fx # 15 => chip8.V[fx] = (2 * v) % 256

\* A left shift in Chip8 mode of Vy = 0xC3 while Vx held 0xAA.
C13_Witness ==
    /\ executed /\ fetched = ALU(0, 1, 14) /\ chip8.mode = "Chip8"
    /\ pre.V[0] = \hAA /\ pre.V[1] = \hC3
    /\ chip8.V[0] = \h86 /\ chip8.V[15] = 1

(***************************************************************************)
(* SpecJump: "V0 = a; Vx = b; jump to nnn + V", x the high nibble of nnn.  *)
(***************************************************************************)
JumpTargets == {\h000, \h1F0, \h2FE, \h300, \hF01, \hFFF}

JumpRoms(targets, values) ==
    { rom_of(<< LD(0, a), LD(nnn \div 256, b), JPV(nnn) >>) :
        nnn \in targets, a \in values, b \in values }

InitJump == InitWith(JumpRoms(JumpTargets, SampleBytes), Mode, {FALSE})

SpecJump == InitJump /\ [][NextCycles]_vars

\* C14: Bnnn sets PC to nnn + V0 in Chip8 and XOChip modes and to nnn + Vx,
\* x the high nibble of nnn, in SuperChip mode, and changes no register,
\* nor the stack, nor memory.
C14_JumpOffset ==
    (executed /\ fgroup = 11) =>
        /\ chip8.PC = fnnn + (IF chip8.mode = "SuperChip" THEN pre.V[fx] ELSE pre.V[0])
        /\ chip8.V = pre.V
        /\ chip8.I = pre.I
        /\ chip8.stack = pre.stack /\ chip8.SP = pre.SP
        /\ chip8.memory = pre.memory
        /\ chip8.panic = ""

\* B2FE in SuperChip mode with V0 = 1 and V2 = 200.
C14_Witness ==
    /\ executed /\ fetched = JPV(\h2FE) /\ chip8.mode = "SuperChip"
    /\ pre.V[0] = 1 /\ pre.V[2] = 200
    /\ chip8.PC = \h2FE + 200

(***************************************************************************)
(* SpecGate: "V0 = a; draw glyph 0 at (V0, V0); op" for each scroll and    *)
(* resolution opcode, in every mode.                                       *)
(***************************************************************************)
ScrollResOps ==
    { SCD(n) : n \in {0, 1, 4, 15} } \cup { SCU(n) : n \in {0, 1, 4, 15} }
    \cup {SCR, SCL, LORES, HIRES}

GateRoms(ops, values) ==
    { rom_of(<< LD(0, a), DRW(0, 0, 5), op >>) : op \in ops, a \in values }

InitGate == InitWith(GateRoms(ScrollResOps, {0, 28, 60}), Mode, {FALSE})

SpecGate == InitGate /\ [][NextCycles]_vars

\* What the DisplayManager method behind a scroll or resolution opcode
\* makes of the display d.
gated_effect(op, d) ==
    CASE op \div 16 = 12 -> scroll_down(d, op % 16)
      [] op \div 16 = 13 -> scroll_up(d, op % 16)
      [] op = SCR -> scroll_right(d)
      [] op = SCL -> scroll_left(d)
      [] op = LORES -> DisplayManager_new("Low")
      [] op = HIRES -> DisplayManager_new("High")

\* C15: 00Cn, 00Dn, 00FB, 00FC, 00FE and 00FF are executed in SuperChip and
\* XOChip modes; in Chip8 mode each is a decode error that leaves the
\* framebuffer contents and the resolution unchanged.
C15_ExtendedOnly ==
    (executed /\ fetched \in ScrollResOps) =>
        IF chip8.mode = "Chip8"
        THEN /\ chip8.panic = "Unknown opcode"
             /\ chip8.display.VRAM = pre.display.VRAM
        ELSE /\ chip8.panic = ""
             /\ chip8.display = gated_effect(fetched, pre.display)

(***************************************************************************)
(* SpecDecode: "V0 = a; V1 = b; w" for instruction words w outside the     *)
(* opcode patterns.                                                        *)
(***************************************************************************)
UnknownWords ==
    { \h5011, \h501F, \h9011, \h901F,
      \h8018, \h801D, \h801F,
      \hE000, \hE09F, \hE0A2, \hE1FF,
      \hF000, \hF056, \hF0FF, \hF108,
      \h0000, \h00B0, \h00E1, \h00EF, \h00F0, \h00FD,
      \h0100, \h0123, \h0FFF }

DecodeRoms(ws, values) ==
    { rom_of(<< LD(0, a), LD(1, b), w >>) : w \in ws, a \in values, b \in values }

InitDecode == InitWith(DecodeRoms(UnknownWords, {0, 1}), Mode, {FALSE})

SpecDecode == InitDecode /\ [][NextCycles]_vars

\* C16: an instruction word that matches no opcode pattern ends the cycle
\* in the fatal decode error: no handler runs and the word is not skipped.
C16_UnknownIsFatal ==
    (executed /\ fetched \in UnknownWords) =>
        /\ chip8.panic = "Unknown opcode"
        /\ chip8.PC = pre.PC + 2
        /\ chip8.V = pre.V

(***************************************************************************)
(* SpecTimers: the run loop on "V0 = d; V1 = t; delay = V0; sound = V1;    *)
(* V2 = 0; V2 = 1", frame ticks falling anywhere between the cycles.       *)
(***************************************************************************)
TimerRoms(values) ==
    { rom_of(<< LD(0, d), LD(1, t), LDDT(0), LDST(1), LD(2, 0), LD(2, 1) >>) :
        d \in values, t \in values }

TimerEvents == { << >>, << KeyEvent("KeyDown", "Escape") >> }

InitTimers == InitWith(TimerRoms({0, 1, 2, 255}), Mode, {FALSE})

NextTimers ==
    \/ \E events \in TimerEvents : Cycle(events)
    \/ Frame
    \/ Quit

SpecTimers == InitTimers /\ [][NextTimers]_vars

floor_dec(t) == IF t > 0 THEN t - 1 ELSE 0

\* C17: a frame tick takes 1 from each timer that is not 0 and leaves a
\* timer that is 0 at 0, however many cycles ran since the last tick; a
\* cycle changes a timer only by the write of Fx15 / Fx18.
C17_TimersPerFrame ==
    /\ step = "frame" =>
          /\ chip8.delay_timer = floor_dec(pre.delay_timer)
          /\ chip8.sound_timer = floor_dec(pre.sound_timer)
    /\ step \in {"cycle", "wait"} =>
          /\ chip8.delay_timer =
                (IF executed /\ fgroup = 15 /\ fkk = \h15 THEN pre.V[fx]
                 ELSE pre.delay_timer)
          /\ chip8.sound_timer =
                (IF executed /\ fgroup = 15 /\ fkk = \h18 THEN pre.V[fx]
                 ELSE pre.sound_timer)

\* The second tick after both timers were set to 1: they stay at 0.
C17_Witness ==
    /\ step = "frame" /\ frames = 2
    /\ chip8.V[0] = 1 /\ chip8.V[1] = 1
    /\ chip8.PC >= ROM_START_ADDRESS + 8
    /\ pre.delay_timer = 0 /\ pre.sound_timer = 0
    /\ chip8.delay_timer = 0 /\ chip8.sound_timer = 0

\* C18: start() is called exactly in the step in which the sound timer
\* goes from 0 to a nonzero value, stop() exactly in the step in which it
\* goes from a nonzero value to 0, and neither in any other step.
C18_AudioEdges ==
    step # "init" =>
        LET rising == pre.sound_timer = 0 /\ chip8.sound_timer > 0
            falling == pre.sound_timer > 0 /\ chip8.sound_timer = 0
        IN  /\ chip8.audio.starts = pre.audio.starts + (IF rising THEN 1 ELSE 0)
            /\ chip8.audio.stops = pre.audio.stops + (IF falling THEN 1 ELSE 0)

(***************************************************************************)
(* SpecSprite: "V0 = a; V1 = b; I = sprite; draw n rows; V0 = a + 3; draw  *)
(* n rows" in low resolution or, after a leading 00FF, in high resolution, *)
(* the 15 sprite bytes stored in the ROM after the program.                *)
(***************************************************************************)
SpriteData ==
    << \h81, \hA5, \hFF, \h01, \h3C, \h80, \h00, \h55,
       \hC3, \h18, \h7E, \h0F, \hF0, \h99, \h42 >>

SpriteXs == {0, 28, 57, 60, 63, 124, 255}
SpriteYs == {0, 20, 30, 31, 63, 255}
SpriteRows == {0, 1, 5, 15}

SpriteRoms(xs, ys, ns) ==
    { rom_of(lead \o << LD(0, a), LD(1, b),
                        LDI(ROM_START_ADDRESS + 2 * (Len(lead) + 6)),
                        DRW(0, 1, n), LD(0, (a + 3) % 256), DRW(0, 1, n) >>)
        \o SpriteData :
        lead \in { << >>, << HIRES >> }, a \in xs, b \in ys, n \in ns }

InitSprite == InitWith(SpriteRoms(SpriteXs, SpriteYs, SpriteRows), Mode, {FALSE})

SpecSprite == InitSprite /\ [][NextCycles]_vars

\* The cells under the 1 bits of the n-row sprite at I, anchored at
\* (vx mod width, vy mod height), rows and bits counted from the top and
\* from the most significant bit: past the bottom or right edge they wrap
\* in XOChip mode and are left out in the other modes.
sprite_cells(s, vx, vy, n) ==
    LET w == width(s.display)
        h == height(s.display)
        x0 == vx % w
        y0 == vy % h
        wraps == s.mode = "XOChip"
    IN  { << (x0 + rb[2]) % w, (y0 + rb[1]) % h >> :
            rb \in { q \in (0..(n - 1)) \X (0..7) :
                       /\ wraps \/ (x0 + q[2] < w /\ y0 + q[1] < h)
                       /\ (mem_get(s.memory, s.I + q[1]) \div Pow2(7 - q[2])) % 2 = 1 } }

\* C19: Dxyn anchors at (Vx mod width, Vy mod height) and XORs onto the
\* screen the n rows of 8 bits at memory[I..I+n-1], most significant bit
\* leftmost; a row or bit past the bottom or right edge wraps around in
\* XOChip mode and is skipped in Chip8 and SuperChip modes; no other pixel
\* changes.
C19_SpriteDraw ==
    (executed /\ fgroup = 13 /\ chip8.panic = "") =>
        LET cells == sprite_cells(pre, pre.V[fx], pre.V[fy], fn)
            before == lit(pre.display)
        IN  /\ lit(chip8.display) = (before \ cells) \cup (cells \ before)
            /\ \A p \in lit(chip8.display) : chip8.display.VRAM.cells[p] = 1
            /\ same_size(chip8.display, pre.display)

\* A 15-row draw at (60, 30) of the 64x32 screen in XOChip mode, over the
\* pixels of an earlier draw: bits reach columns 0..3 and rows 0..12.
C19_Witness ==
    /\ executed /\ fetched = DRW(0, 1, 15) /\ chip8.mode = "XOChip"
    /\ width(pre.display) = X_DIM_LORES
    /\ pre.V[0] = 60 /\ pre.V[1] = 30
    /\ lit(pre.display) # {}
    /\ <<0, 0>> \in sprite_cells(pre, 60, 30, 15)
    /\ \E p \in lit(chip8.display) \ lit(pre.display) : p[1] < 4 /\ p[2] < 13

(***************************************************************************)
(* SpecEdge: programs that take PC or I to the last bytes of the memory:   *)
(* a jump to 0xFFE or 0xFFF, and Fx33, Fx55, Fx65 and Dxyn with I from     *)
(* 0xFFC to 0xFFF.                                                         *)
(***************************************************************************)
EdgeAddrs == {\hFFC, \hFFD, \hFFE, \hFFF}

EdgeRoms(addrs, values) ==
    { rom_of(<< LD(0, v), JP(t) >>) : v \in values, t \in addrs }
    \cup { rom_of(<< LDI(i), LD(0, v), LD(1, 9), op >>) :
             i \in addrs, v \in values,
             op \in { BCD(0), STO(1), LDR(1), DRW(0, 0, 1), DRW(0, 0, 2) } }

InitEdge == InitWith(EdgeRoms(EdgeAddrs, {0, 7, 205}), Mode, {FALSE})

SpecEdge == InitEdge /\ [][NextCycles]_vars

\* The cycle just taken had to address memory past MEMORY_SIZE - 1: in its
\* fetch, or in the Dxyn, Fx33, Fx55 or Fx65 it fetched.
out_of_bounds_cycle ==
    /\ step = "cycle"
    /\ \/ pre.PC + 1 > MEMORY_SIZE - 1
       \/ /\ fetched >= 0
          /\ \/ fgroup = 13 /\ fn > 0 /\ pre.I + fn - 1 > MEMORY_SIZE - 1
             \/ fgroup = 15 /\ fkk = \h33 /\ pre.I + 2 > MEMORY_SIZE - 1
             \/ fgroup = 15 /\ fkk \in {\h55, \h65} /\ pre.I + fx > MEMORY_SIZE - 1

\* C20: a cycle in which the fetch (PC + 1 > 4095) or Dxyn, Fx33, Fx55 or
\* Fx65 (I + offset > 4095) would address memory outside 0..4095 does not
\* panic the host process and modifies neither the memory nor the
\* registers.
C20_OutOfBoundsIsFatalError ==
    out_of_bounds_cycle =>
        /\ chip8.panic = ""
        /\ chip8.memory = pre.memory
        /\ chip8.V = pre.V

(***************************************************************************)
(* SpecInput: calls of the public InputManager methods, as the tests of    *)
(* input.rs and tests/test_input_manager.rs make them: update() with the   *)
(* events pushed to the pump, and get_next_released_key().  `ret` records  *)
(* the events of the update, or the value returned.                        *)
(***************************************************************************)
InputBatches ==
    { << KeyEvent("KeyDown", "Z") >>,
      << KeyEvent("KeyUp", "Z") >>,
      << KeyEvent("KeyDown", "X") >>,
      << KeyEvent("KeyUp", "X") >>,
      << KeyEvent("KeyDown", "Z"), KeyEvent("KeyUp", "Z") >>,
      << KeyEvent("KeyUp", "X"), KeyEvent("KeyUp", "Z") >>,
      << KeyEvent("KeyUp", "F1") >>,
      << KeyEvent("KeyDown", "Escape") >>,
      << KeyEvent("Quit", "") >> }

InitInput ==
    /\ chip8 = Chip8_new("Chip8", << >>, FALSE)
    /\ done = FALSE
    /\ step = "init"
    /\ fetched = -1
    /\ pre = chip8
    /\ ret = no_call
    /\ frames = 0

InputCall(name, args, input, value) ==
    /\ chip8' = [chip8 EXCEPT !.input = input]
    /\ step' = name
    /\ ret' = [args |-> args, value |-> value]
    /\ pre' = chip8
    /\ UNCHANGED <<done, fetched, frames>>

GetNextReleasedKey ==
    LET r == get_next_released_key(chip8.input)
    IN  InputCall("get_next_released_key", << >>, r.input, r.ret)

Update ==
    \E events \in InputBatches :
        InputCall("update", events, update(chip8.input, events), 0)

NextInput ==
    \/ GetNextReleasedKey
    \/ Update

SpecInput == InitInput /\ [][NextInput]_vars

is_key_up(event) ==
    event.type = "KeyUp" /\ event.scancode \in DOMAIN SCANCODE_TO_HEX_MAP

\* The update just made ended with the key-up of a mapped key that was down,
\* processed while a wait was pending.
released_while_waiting(k) ==
    /\ step = "update"
    /\ LET events == ret.args
           last == events[Len(events)]
           before == update(pre.input, SubSeq(events, 1, Len(events) - 1))
       IN  /\ is_key_up(last) /\ SCANCODE_TO_HEX_MAP[last.scancode] = k
           /\ before.waiting_for_key
           /\ before.key_state[k]

\* C21: a release is delivered at most once: a get_next_released_key leaves
\* nothing to deliver, a call that finds nothing returns None, and only an
\* update() that processes the key-up of a mapped key makes a release
\* deliverable; a release that waits to be delivered is kept by every
\* update().  After a key-down and a key-up of mapped key k processed while
\* a wait is pending, is_key_pressed(k) is false and the next
\* get_next_released_key returns Some(k).
C21_ReleaseOnce ==
    LET queue == chip8.input.released_key_queue
        was == pre.input.released_key_queue
    IN  /\ step = "get_next_released_key" =>
              /\ ret.value = was
              /\ queue = None
              /\ get_next_released_key(chip8.input).ret = None
        /\ step = "update" =>
              /\ was # None => queue = was
              /\ (was = None /\ queue # None) =>
                    \E i \in 1..Len(ret.args) : is_key_up(ret.args[i])
        /\ \A k \in 0..(KEYS_NUM - 1) :
              released_while_waiting(k) =>
                  /\ ~is_key_pressed(chip8.input, k)
                  /\ get_next_released_key(chip8.input).ret = Some(k)

\* Z goes down and up in one update() while a wait is pending, after an
\* earlier release of X was delivered.
C21_Witness ==
    /\ released_while_waiting(10)
    /\ Len(ret.args) = 2
    /\ ~pre.input.key_state[10]
    /\ chip8.input.released_key_queue = Some(10)
    /\ ~chip8.input.key_state[0]

(***************************************************************************)
(* C22, on Spec: the quit signal in the run loop.                          *)
(***************************************************************************)
is_quit(event) ==
    event.type = "Quit" \/ (event.type = "KeyDown" /\ event.scancode = "Escape")

\* C22: once update() has processed a window close or an Escape key-down,
\* should_quit() is true and stays true, and the loop stops in that same
\* iteration: no instruction cycle (and no key-wait poll) is made after it,
\* and only the frame block of that iteration can still run before the
\* break.
C22_QuitStops ==
    /\ [](/\ (step \in {"cycle", "wait"} /\ \E i \in 1..Len(ret.args) : is_quit(ret.args[i]))
               => should_quit(chip8.input)
          /\ (step # "init" /\ pre.input.quit) => chip8.input.quit
          /\ step \in {"cycle", "wait"} => ~pre.input.quit)
    /\ [][chip8.input.quit =>
             \/ step' = "quit" /\ done'
             \/ step' = "frame" /\ step # "frame"]_vars

\* The loop has ended on an Escape key-down, after the frame block of the
\* same iteration.
C22_Witness ==
    /\ done /\ step = "quit"
    /\ should_quit(chip8.input)
    /\ ret.args = << KeyEvent("KeyDown", "Escape") >>
    /\ frames > 0

(***************************************************************************)
(* SpecCollide: "V0 = a; V1 = b; VF = f; draw glyph 0; V0 = a + d;         *)
(* VF = f; draw glyph 0": the second draw erases the first (d = 0),        *)
(* overlaps it (d = 1) or misses it (d = 4, 8).                            *)
(***************************************************************************)
CollideXs == {0, 60, 62}
CollideYs == {0, 30}
CollideShifts == {0, 1, 4, 8}

CollideRoms(xs, ys, shifts, flags) ==
    { rom_of(<< LD(0, a), LD(1, b), LD(15, f), DRW(0, 1, 5),
                LD(0, (a + d) % 256), LD(15, f), DRW(0, 1, 5) >>) :
        a \in xs, b \in ys, d \in shifts, f \in flags }

InitCollide ==
    InitWith(CollideRoms(CollideXs, CollideYs, CollideShifts, {0, 1, 255}),
             Mode, {FALSE})

SpecCollide == InitCollide /\ [][NextCycles]_vars

\* C23: after a Dxyn with x and y other than 0xF, VF is 1 if the draw
\* turned off a pixel that was on before it, and 0 if it did not, whatever
\* VF held before.
C23_Collision ==
    (executed /\ fgroup = 13 /\ fx # 15 /\ fy # 15 /\ chip8.panic = "") =>
        chip8.V[15] =
            IF lit(pre.display) \ lit(chip8.display) # {} THEN 1 ELSE 0

\* A draw that turns off some pixels of the glyph drawn before and turns on
\* others, made with VF = 255; and (the other case) one that turns off
\* none, made with VF = 1.
C23_Witness ==
    /\ executed /\ fetched = DRW(0, 1, 5)
    /\ pre.V[15] = 255 /\ chip8.V[15] = 1
    /\ lit(pre.display) \ lit(chip8.display) # {}
    /\ lit(chip8.display) \ lit(pre.display) # {}

C23_WitnessNoCollision ==
    /\ executed /\ fetched = DRW(0, 1, 5)
    /\ pre.V[15] = 1 /\ chip8.V[15] = 0
    /\ lit(pre.display) # {}
    /\ lit(pre.display) \subseteq lit(chip8.display)

(***************************************************************************)
(* C24, on SpecDisplay: the dirty flag after a mutating call.              *)
(***************************************************************************)
MutatingCalls ==
    {"set_pixel", "clear", "scroll_down", "scroll_up", "scroll_left", "scroll_right"}

\* C24: after set_pixel, clear, scroll_down, scroll_up, scroll_left or
\* scroll_right has run, the dirty flag is set and the next render()
\* forwards a present request.
C24_MutationSetsDirty ==
    (step \in MutatingCalls /\ ~chip8.display.oob) =>
        /\ chip8.display.update_needed
        /\ render(chip8.display).presents = chip8.display.presents + 1

(***************************************************************************)
(* C25, on SpecGate: the horizontal scrolls in low resolution.             *)
(***************************************************************************)
\* C25: 00FB and 00FC executed while the framebuffer is 64x32 do not shift
\* it: the framebuffer is left unchanged.
C25_HorizontalScrollHiresOnly ==
    (executed /\ fetched \in {SCR, SCL} /\ width(pre.display) = X_DIM_LORES) =>
        chip8.display.VRAM = pre.display.VRAM

(***************************************************************************)
(* SpecNest: d nested calls followed by d returns.  The subroutine of      *)
(* level i is at ROM_START_ADDRESS + 4 * i and is "call level i + 1;       *)
(* return"; the deepest is "return"; the program is "call level 1; jump    *)
(* to this jump".                                                          *)
(***************************************************************************)
level_addr(i) == ROM_START_ADDRESS + 4 * i

NestWords(d) ==
    [ j \in 1..(2 * d + 1) |->
        IF j = 2 THEN JP(level_addr(0) + 2)
        ELSE IF j = 2 * d + 1 \/ j % 2 = 0 THEN RET
        ELSE CALL(level_addr((j - 1) \div 2 + 1)) ]

NestDepths == {1, 2, 3, 8, 15, 16, 17}

NestRoms(depths) == { rom_of(NestWords(d)) : d \in depths }

InitNest == InitWith(NestRoms(NestDepths), Mode, {FALSE})

SpecNest == InitNest /\ [][NextCycles]_vars

\* C26: a call (2nnn) with SP < 16 pushes the address of the instruction
\* that follows it, increments SP and sets PC = nnn; a return (00EE) with
\* SP > 0 decrements SP and sets PC to the address pushed last; so when the
\* returns have undone the nested calls (SP is back to 0, the value it had
\* at the first call), PC is the address that follows the first call.
C26_CallReturn ==
    /\ (executed /\ fgroup = 2 /\ pre.SP < MAX_STACK_LEVELS) =>
          /\ chip8.stack = [pre.stack EXCEPT ![pre.SP] = pre.PC + 2]
          /\ chip8.SP = pre.SP + 1
          /\ chip8.PC = fnnn
    /\ (executed /\ fetched = RET /\ pre.SP > 0) =>
          /\ chip8.SP = pre.SP - 1
          /\ chip8.PC = pre.stack[pre.SP - 1]
          /\ chip8.stack = pre.stack
          /\ chip8.SP = 0 => chip8.PC = level_addr(0) + 2

\* The last of sixteen returns after sixteen nested calls.
C26_Witness ==
    /\ executed /\ fetched = RET
    /\ pre.SP = 1 /\ chip8.SP = 0
    /\ chip8.stack[MAX_STACK_LEVELS - 1] = level_addr(15) + 2
    /\ chip8.PC = level_addr(0) + 2
    /\ chip8.panic = ""

(***************************************************************************)
(* SpecBroad: the run loop on the programs "V0 = 3; op", with one op for   *)
(* every arm of execute_opcode, and "00FF; V0 = 3; op", with the ops that  *)
(* act on the display, in high resolution.                                 *)
(***************************************************************************)
EveryArm ==
    { \h00E0, RET, SCD(1), SCU(1), SCR, SCL, LORES, HIRES, \h00FD, \h0123,
      JP(\h0208), CALL(\h0208), \h3003, \h4003, \h5010, LD(1, 5), \h7005,
      \h9010, LDI(\h0300), JPV(\h0208), \hC103, DRW(0, 0, 5),
      \hE09E, \hE0A1, \hE0FF, \hF107, LDK(1), LDDT(0), LDST(0), \hF01E,
      LDF(0), BCD(0), STO(1), LDR(1), \hF075 }
    \cup { ALU(0, 1, n) : n \in {0, 1, 2, 3, 4, 5, 6, 7, 14, 15} }

DisplayArms == { \h00E0, SCR, LORES, HIRES, DRW(0, 0, 5) }

BroadRoms(ops, display_ops) ==
    { rom_of(<< LD(0, 3), op >>) : op \in ops }
    \cup { rom_of(<< HIRES, LD(0, 3), op >>) : op \in display_ops }

BroadEvents ==
    { << >>,
      << KeyEvent("KeyDown", "Z"), KeyEvent("KeyUp", "Z") >>,
      << KeyEvent("KeyDown", "Escape") >> }

InitBroad == InitWith(BroadRoms(EveryArm, DisplayArms), Mode, {FALSE})

NextBroad ==
    \/ \E events \in BroadEvents : Cycle(events)
    \/ Frame
    \/ Quit

SpecBroad == InitBroad /\ [][NextBroad]_vars

\* C27: the mode never changes, and the width and height of the
\* framebuffer change only in a cycle that executes 00FE or 00FF: every
\* other opcode, every frame tick and every key-wait cycle leaves them as
\* they were.
C27_ModeAndResolution ==
    step # "init" =>
        /\ chip8.mode = pre.mode
        /\ ~same_size(chip8.display, pre.display) =>
              step = "cycle" /\ fetched \in {LORES, HIRES}

\* 00E0 executed in high resolution: the framebuffer stays 128x64.
C27_Witness ==
    /\ executed /\ fetched = \h00E0 /\ chip8.panic = ""
    /\ width(pre.display) = X_DIM_HIRES /\ height(pre.display) = Y_DIM_HIRES
    /\ width(chip8.display) = X_DIM_HIRES /\ height(chip8.display) = Y_DIM_HIRES
    /\ chip8.mode = "SuperChip"
    /\ frames > 0

(***************************************************************************)
(* SpecWait: the run loop on "V0 = t; delay = V0; sound = V0; draw glyph   *)
(* 0; V1 = key; V2 = 7".  The loop tests should_quit() at the end of every *)
(* iteration, so the break is taken once it is possible: weak fairness on  *)
(* Quit.                                                                   *)
(***************************************************************************)
WaitRoms(values) ==
    { rom_of(<< LD(0, t), LDDT(0), LDST(0), DRW(0, 0, 5), LDK(1), LD(2, 7) >>) :
        t \in values }

WaitEvents ==
    { << >>,
      << KeyEvent("KeyDown", "Z") >>,
      << KeyEvent("KeyUp", "Z") >>,
      << KeyEvent("KeyDown", "Escape") >>,
      << KeyEvent("Quit", "") >> }

InitWait == InitWith(WaitRoms({0, 1, 3}), Mode, {FALSE})

NextWait ==
    \/ \E events \in WaitEvents : Cycle(events)
    \/ Frame
    \/ Quit

SpecWait == InitWait /\ [][NextWait]_vars /\ WF_vars(Quit)

AwaitingRelease(s) == s.release_key_register # None

\* C28: while the VM awaits a key release, a frame tick still takes 1 from
\* each nonzero timer and still renders (presenting what was drawn), and a
\* quit signal observed during the wait still ends the loop, with no key
\* released.
C28_WaitIsLogical ==
    /\ []((step = "frame" /\ AwaitingRelease(pre)) =>
            /\ chip8.delay_timer = floor_dec(pre.delay_timer)
            /\ chip8.sound_timer = floor_dec(pre.sound_timer)
            /\ ~chip8.display.update_needed
            /\ chip8.display.presents =
                   pre.display.presents + (IF pre.display.update_needed THEN 1 ELSE 0)
            /\ AwaitingRelease(chip8))
    /\ (should_quit(chip8.input) /\ AwaitingRelease(chip8)) ~> done

\* The loop has ended during the wait: both timers, set to 3, have been
\* decremented twice by frame ticks made while waiting, the glyph has been
\* presented, and no key was released.
C28_Witness ==
    /\ done /\ AwaitingRelease(chip8)
    /\ chip8.delay_timer = 1 /\ chip8.sound_timer = 1
    /\ chip8.display.presents = 2 /\ lit(chip8.display) # {}
    /\ chip8.V[1] = 0 /\ chip8.input.released_key_queue = None

\* A frame tick made while waiting, with timers to decrement and pixels to
\* present.
C28_FrameWhileWaiting ==
    /\ step = "frame" /\ AwaitingRelease(pre)
    /\ pre.delay_timer = 3 /\ pre.display.update_needed

(***************************************************************************)
(* SpecTwoWaits: cycles only, each with the events of its update(), on     *)
(* "V1 = key; V3 = 1; V2 = key; V3 = 2".  With no frame tick between two   *)
(* cycles, `step` and `ret` of a state are those of the cycle before it.   *)
(***************************************************************************)
TwoWaitsRoms == { rom_of(<< LDK(1), LD(3, 1), LDK(2), LD(3, 2) >>) }

TwoWaitsEvents ==
    { << >>,
      << KeyEvent("KeyDown", "Z") >>,
      << KeyEvent("KeyUp", "Z") >>,
      << KeyEvent("KeyUp", "X") >>,
      << KeyEvent("KeyDown", "Z"), KeyEvent("KeyUp", "Z") >> }

InitTwoWaits == InitWith(TwoWaitsRoms, Mode, {FALSE})

NextTwoWaits == \E events \in TwoWaitsEvents : Cycle(events)

SpecTwoWaits == InitTwoWaits /\ [][NextTwoWaits]_vars

\* C29: a key-wait is completed only by a release that update() processed
\* after the wait started polling: the cycle that completes a wait follows
\* a poll of that wait (not the cycle that executed Fx0A), and the key it
\* writes into Vx is one whose key-up the update() after that poll
\* processed.
C29_NoStaleRelease ==
    [][(AwaitingRelease(chip8) /\ ~AwaitingRelease(chip8')) =>
          /\ step = "wait"
          /\ \E i \in 1..Len(ret.args) :
                /\ is_key_up(ret.args[i])
                /\ chip8'.V[chip8.release_key_register[1]] =
                       SCANCODE_TO_HEX_MAP[ret.args[i].scancode]]_vars

(***************************************************************************)
(* SpecFlagDest: "VF = a; Vy = b; VF = VF op Vy" for the five opcodes that *)
(* produce a flag, with y = 1 and y = 0xF.                                 *)
(***************************************************************************)
FlagOps == {4, 5, 6, 7, 14}

InitFlagDest ==
    InitWith(AluRoms(FlagOps, { <<15, 1>>, <<15, 15>> }, SampleBytes),
             Mode, {FALSE})

SpecFlagDest == InitFlagDest /\ [][NextCycles]_vars

\* The flag 8xyN is to produce from the registers of s.
flag_of(s, y, n) ==
    LET shifted == IF s.mode = "SuperChip" THEN s.V[15] ELSE s.V[y]
    IN  CASE n = 4 -> IF s.V[15] + s.V[y] > 255 THEN 1 ELSE 0
          [] n = 5 -> IF s.V[15] >= s.V[y] THEN 1 ELSE 0
          [] n = 7 -> IF s.V[y] >= s.V[15] THEN 1 ELSE 0
          [] n = 6 -> shifted % 2
          [] n = 14 -> shifted \div 128

\* C30: with x = 0xF in 8xy4, 8xy5, 8xy7, 8xy6 and 8xyE the flag is written
\* after the result: VF ends holding the carry, no-borrow or shifted-out
\* bit, a value of 0 or 1, and the arithmetic result is discarded.
C30_FlagWins ==
    (executed /\ fgroup = 8 /\ fx = 15 /\ fn \in FlagOps) =>
        /\ chip8.V[15] = flag_of(pre, fy, fn)
        /\ chip8.V[15] \in {0, 1}
        /\ \A r \in 0..14 : chip8.V[r] = pre.V[r]

\* 8F14 with VF = 200 and V1 = 100: the sum 44 is discarded, VF = 1.
C30_Witness ==
    /\ executed /\ fetched = ALU(15, 1, 4)
    /\ pre.V[15] = 200 /\ pre.V[1] = 100
    /\ chip8.V[15] = 1

\* 8F17 with VF = 100 and V1 = 200: the difference 100 is discarded.
C30_WitnessSubn ==
    /\ executed /\ fetched = ALU(15, 1, 7)
    /\ pre.V[15] = 100 /\ pre.V[1] = 200
    /\ chip8.V[15] = 1

(***************************************************************************)
(* SpecTwice: "V0 = a; V1 = b; I = sprite; draw n rows; V0 = a + 3; draw   *)
(* n rows; draw n rows" in low resolution or, after a leading 00FF, in     *)
(* high resolution: the last two draws are the same Dxyn, made on the      *)
(* pixels of the first.                                                    *)
(***************************************************************************)
TwiceRoms(xs, ys, ns) ==
    { rom_of(lead \o << LD(0, a), LD(1, b),
                        LDI(ROM_START_ADDRESS + 2 * (Len(lead) + 7)),
                        DRW(0, 1, n), LD(0, (a + 3) % 256),
                        DRW(0, 1, n), DRW(0, 1, n) >>)
        \o SpriteData :
        lead \in { << >>, << HIRES >> }, a \in xs, b \in ys, n \in ns }

InitTwice == InitWith(TwiceRoms({0, 60, 255}, {0, 30, 255}, {1, 5, 15}), Mode, {FALSE})

SpecTwice == InitTwice /\ [][NextCycles]_vars

\* The Dxyn just executed is the next instruction too.
draws_again ==
    /\ executed /\ fgroup = 13 /\ fx # 15 /\ fy # 15
    /\ chip8.panic = ""
    /\ word_at(chip8, chip8.PC) = fetched

\* C31: executing the same Dxyn (x, y other than 0xF) twice in a row
\* leaves the framebuffer as it was before the first of the two: after the
\* first, the cycle that executes the second gives back the framebuffer
\* the first found.
C31_DrawTwiceRestores ==
    draws_again =>
        LET second == emulate_cycle(chip8, 0)
        IN  /\ second.opcode = fetched
            /\ second.chip8.panic = ""
            /\ second.chip8.display.VRAM = pre.display.VRAM

\* The first of two 15-row draws at (63, 30) in XOChip mode, on the pixels
\* of the draw at (60, 30): it wraps at both edges, turns some pixels off
\* and others on.
C31_Witness ==
    /\ draws_again /\ fn = 15 /\ chip8.mode = "XOChip"
    /\ width(pre.display) = X_DIM_LORES
    /\ pre.V[0] = 63 /\ pre.V[1] = 30
    /\ lit(pre.display) \ lit(chip8.display) # {}
    /\ lit(chip8.display) \ lit(pre.display) # {}
    /\ chip8.V[15] = 1

(***************************************************************************)
(* SpecGrid: "V0 = 62; V1 = 30; draw 15 rows; op; op" with every pair of   *)
(* ops out of the clear, the scrolls, the resolution switches and the      *)
(* draw, and, in high resolution, "00FF; V0 = 62; V1 = 30; draw 15 rows;   *)
(* op; op" with a scroll left or a draw as the first op.                   *)
(***************************************************************************)
GridOps ==
    { \h00E0, SCD(0), SCD(15), SCU(0), SCU(15), SCR, SCL,
      LORES, HIRES, DRW(0, 1, 15) }

GridRoms(ops, hires_first) ==
    { rom_of(<< LD(0, 62), LD(1, 30), DRW(0, 1, 15), op1, op2 >>) :
        op1 \in ops, op2 \in ops }
    \cup { rom_of(<< HIRES, LD(0, 62), LD(1, 30), DRW(0, 1, 15), op1, op2 >>) :
              op1 \in hires_first, op2 \in ops }

InitGrid == InitWith(GridRoms(GridOps, {SCL, DRW(0, 1, 15)}), Mode, {FALSE})

SpecGrid == InitGrid /\ [][NextCycles]_vars

\* C32: the framebuffer is a grid of 64x32 or 128x64 cells, every cell
\* holds 0 or 1 (a cell that is not 0 is inside the grid and holds 1), and
\* no draw, clear or scroll has read or written a cell outside the grid.
C32_GridShape ==
    LET d == chip8.display
    IN  /\ <<width(d), height(d)>> \in
               { <<X_DIM_LORES, Y_DIM_LORES>>, <<X_DIM_HIRES, Y_DIM_HIRES>> }
        /\ \A p \in DOMAIN d.VRAM.cells :
               /\ vram_in(d.VRAM, p[1], p[2])
               /\ d.VRAM.cells[p] = 1
        /\ ~d.oob
        /\ chip8.panic # "index out of bounds"

\* A 15-row scroll up of the 128x64 grid after a scroll left of a sprite
\* drawn across the edges, in XOChip mode.
C32_Witness ==
    /\ executed /\ fetched = SCU(15) /\ chip8.mode = "XOChip"
    /\ chip8.panic = ""
    /\ width(chip8.display) = X_DIM_HIRES
    /\ word_at(pre, pre.PC - 2) = SCL
    /\ lit(pre.display) # {} /\ lit(chip8.display) # {}
    /\ lit(chip8.display) # lit(pre.display)

=============================================================================
